---- MODULE Spec2Model ----
(***************************************************************************)
(* Learned index for SST files: the retraining scheduler                   *)
(* (AdaptiveRetrainingManager), the performance tracker                    *)
(* (ModelPerformanceTracker) and the per-file model cache                  *)
(* (SSTLearnedIndexManager).                                               *)
(*                                                                         *)
(* Time is counted in ticks of half an hour.  The wall clock starts at T0,  *)
(* a value no smaller than any configured duration, as an epoch clock is.  *)
(* Accuracies are exact rationals with the fixed denominator AccScale.     *)
(***************************************************************************)
EXTENDS Integers, Sequences, FiniteSets, TLC

(* ------------------------------ bounds --------------------------------- *)

\* last clock value explored
MaxTime == 4
\* accepted retraining requests explored (caps the statistics counters)
MaxRequests == 3
\* successful retrains of one file explored (caps retrain_count)
MaxRetrains == 2
\* longest access_order_ explored
MaxOrderLen == 4
\* largest max_cache_size option explored
MaxCache == 2
\* largest access_count explored
MaxAccessCount == 2
\* PredictBlockIndex calls counted per file (caps total_queries)
MaxQueries == 1

(* ------------------------ configuration values ------------------------- *)

\* first clock value
T0 == 2
\* the SST files the tracker and the scheduler are exercised with
Files == {"f1"}
\* the SST files the model cache is exercised with
Paths == {"A", "B", "C"}
Workers == {"w1", "w2"}

\* AdaptiveRetrainingManager::Config, as the manager is configured here
max_concurrent_retraining == 2
retraining_queue_size == 2
emergency_retraining_threshold == 60000

\* ModelPerformanceTracker::Config, as the tracker is configured here
max_events_per_window == 2
window_duration_ms == 1
max_windows_stored == 2
min_predictions_for_decision == 2
min_time_between_retrains_ms == 1
enable_trend_analysis == TRUE
\* minimum_accuracy_threshold = MinAccNum / MinAccDen
MinAccNum == 85
MinAccDen == 100
\* accuracy_degradation_threshold = DegrNum / DegrDen
DegrNum == 5
DegrDen == 100
\* the one hour horizon of the 1h trend, in ticks
OneHourMs == 2

\* SSTLearnedIndexOptions::confidence_threshold, in percent
confidence_threshold == 80
\* the confidences a cached model reports for the keys asked, in percent
Confidences == {50, 80, 90}
\* the blocks a cached model predicts for the keys asked
Blocks == {0, 1}

(* ------------------------------ state ---------------------------------- *)

VARIABLES
  now,                      \* system_clock
  \* ModelPerformanceTracker
  model_events,             \* file -> sequence of prediction events
  model_windows,            \* file -> archived windowed metrics
  model_health,             \* file -> ModelHealthMetrics
  tracked,                  \* keys of model_health_
  last_window_computation,  \* file -> time of the last archived window
  mutex_,                   \* tracker mutex: "free" or "hung"
  \* AdaptiveRetrainingManager
  is_running, is_paused, should_stop,
  retraining_queue,         \* requests, in arrival order
  models_being_retrained,   \* the in-flight set
  active_retraining_count,
  stats,
  queue_mutex,              \* "free", a worker, or "hung"
  wpc, wreq, wres,          \* worker threads: position, request, result
  mon,                      \* monitoring thread
  stopper,                  \* the thread inside Stop(): "idle" or "joining"
  \* SSTLearnedIndexManager
  model_cache, access_order, max_cache_size, disk, crashed, ins_order,
  enabled,                  \* options_.enabled
  cache_mutex,              \* holder of cache_mutex_: "free" or "pred"
  pred,                     \* the thread inside PredictBlockIndex
  file_stats,               \* path -> SSTLearnedIndexStats counters
  \* LearnedIndexBlock
  block_,                   \* a LearnedIndexBlock object
  serialized,               \* the bytes of a model file
  deserialized,             \* a second object, after Deserialize(serialized)
  linear_,                  \* the model TrainLinearModel returned, in exact arithmetic
  \* AdaptiveSSTLearnedIndexManager
  adaptive_monitoring_active_,
  retraining_config,        \* adaptive_config_.retraining_config, copied by the scheduler
  \* the threads and the mutexes they lock
  lock_holder,              \* mutex -> the thread that holds it, or "none"
  thread_todo,              \* thread -> the lock and unlock steps left of its call
  \* the operation performed by the last step
  op

trackerVars == <<model_events, model_windows, model_health, tracked,
                 last_window_computation, mutex_>>
schedVars == <<is_running, is_paused, should_stop, retraining_queue,
               models_being_retrained, active_retraining_count, stats,
               queue_mutex, wpc, wreq, wres, mon, stopper>>
storeVars == <<model_cache, access_order, max_cache_size, disk, crashed,
               ins_order, enabled, cache_mutex, pred, file_stats>>
blockVars == <<block_, serialized, deserialized, linear_>>
adaptiveVars == <<adaptive_monitoring_active_, retraining_config>>
lockVars == <<lock_holder, thread_todo>>
vars == <<now, trackerVars, schedVars, storeVars, blockVars, adaptiveVars, lockVars, op>>

(* ------------------------- arithmetic helpers -------------------------- *)

RECURSIVE Factorial(_)
Factorial(n) == IF n <= 1 THEN 1 ELSE n * Factorial(n - 1)

\* common denominator of every accuracy total/correct with total <= max_events
AccScale == Factorial(max_events_per_window)

RECURSIVE SumSeq(_)
SumSeq(s) == IF s = <<>> THEN 0 ELSE Head(s) + SumSeq(Tail(s))

\* (a - b) mod 2^64 >= m for a, b, m far below 2^63: a wrapped difference
\* 2^64 - (b - a) exceeds every such m
U64SubGE(a, b, m) == IF a >= b THEN a - b >= m ELSE TRUE

(* ------------------------ ModelPerformanceTracker ---------------------- *)

DefaultHealth ==
  [current_accuracy |-> 0, trend_num |-> 0, trend_den |-> 1,
   is_degrading |-> FALSE, needs_retraining |-> FALSE,
   last_retrain_timestamp_ms |-> 0, retrain_count |-> 0]

ComputeMetricsFromEvents(events, start_ms, end_ms) ==
  LET inw == SelectSeq(events, LAMBDA e : e.ts >= start_ms /\ e.ts <= end_ms)
      total == Len(inw)
      correct == Len(SelectSeq(inw, LAMBDA e : e.ok))
  IN [window_start_ms |-> start_ms,
      total_predictions |-> total,
      correct_predictions |-> correct,
      accuracy_rate |-> IF total = 0 THEN 0 ELSE (correct * AccScale) \div total]

\* slope of the accuracies of the archived windows that start inside the
\* horizon, as the fraction num / (den * AccScale)
ComputeAccuracyTrend(windows, current_time, duration_ms) ==
  LET start_time == current_time - duration_ms
      inh == SelectSeq(windows, LAMBDA w : w.window_start_ms >= start_time
                                           /\ w.total_predictions > 0)
      n == Len(inh)
      acc == [i \in 1..n |-> inh[i].accuracy_rate]
      sum_x == (n * (n - 1)) \div 2
      sum_y == SumSeq(acc)
      sum_xy == SumSeq([i \in 1..n |-> (i - 1) * acc[i]])
      sum_xx == SumSeq([i \in 1..n |-> (i - 1) * (i - 1)])
  IN IF n < 2 THEN [num |-> 0, den |-> 1]
     ELSE [num |-> n * sum_xy - sum_x * sum_y, den |-> n * sum_xx - sum_x * sum_x]

\* trend < -accuracy_degradation_threshold
TrendBelowNegThreshold(num, den) == num * DegrDen < 0 - (DegrNum * den * AccScale)

IsAccuracyDegrading(windows, current_time) ==
  LET t == ComputeAccuracyTrend(windows, current_time, OneHourMs)
  IN TrendBelowNegThreshold(t.num, t.den)

\* the health record ComputeHealthMetrics stores and returns when it runs
\* to completion
HealthAfterCompute(f) ==
  LET h == model_health[f]
      current == ComputeMetricsFromEvents(model_events[f], now - window_duration_ms, now)
      tr == IF enable_trend_analysis
            THEN ComputeAccuracyTrend(model_windows[f], now, OneHourMs)
            ELSE [num |-> h.trend_num, den |-> h.trend_den]
      degr == IF enable_trend_analysis
              THEN IsAccuracyDegrading(model_windows[f], now)
              ELSE h.is_degrading
      accuracy_below_threshold == current.accuracy_rate * MinAccDen < MinAccNum * AccScale
      significant_degradation == degr /\ TrendBelowNegThreshold(tr.num, tr.den)
      enough_time_passed == U64SubGE(now, h.last_retrain_timestamp_ms,
                                     min_time_between_retrains_ms)
      enough_samples == current.total_predictions >= min_predictions_for_decision
  IN [h EXCEPT !.current_accuracy = current.accuracy_rate,
               !.trend_num = tr.num, !.trend_den = tr.den,
               !.is_degrading = degr,
               !.needs_retraining = enough_samples /\ enough_time_passed
                                    /\ (accuracy_below_threshold \/ significant_degradation)]

\* ComputeHealthMetrics locks mutex_ and then calls ComputeCurrentMetrics,
\* which locks the same non-recursive mutex again: undefined behaviour.
\* The second lock may block forever, throw std::system_error, or succeed
\* (an elided or inactive mutex).
RelockOutcomes == {"proceed", "deadlock", "throw"}

\* effect of ComputeHealthMetrics(f) on the tracker for one outcome; the
\* health entry is created before the second lock is attempted
TrackerAfterCompute(f, outcome) ==
  /\ tracked' = tracked \cup {f}
  /\ model_health' = IF outcome = "proceed"
                     THEN [model_health EXCEPT ![f] = HealthAfterCompute(f)]
                     ELSE model_health
  /\ mutex_' = IF outcome = "deadlock" THEN "hung" ELSE mutex_
  /\ UNCHANGED <<model_events, model_windows, last_window_computation>>

\* mutant: a trim that drops the newest elements instead of the oldest
Trim_DropsNewest(s, max) == IF Len(s) > max THEN SubSeq(s, 1, max) ELSE s

\* while (size() > max) pop_front()
Trim(s, max) == IF Len(s) > max THEN SubSeq(s, Len(s) - max + 1, Len(s)) ELSE s

\* the operation of a step: its name, its file, what it returned and, for
\* the tracker operations that write needs_retraining, the flag they found
OpFound(n, f, r, found) == [name |-> n, file |-> f, ret |-> r, found |-> found]

Op(n, f, r) == OpFound(n, f, r, FALSE)

\* a step that no property refers to by name
Internal == Op("-", "-", "void")

\* the event buffer after RecordPrediction appends an event and trims
EventsAfterRecord(events, t, ok) ==
  Trim(Append(events, [ts |-> t, ok |-> ok]), max_events_per_window)

\* UpdateWindowedMetrics: archive the current window and trim the archive
UpdateWindowedMetrics(windows, events, t) ==
  Trim(Append(windows, ComputeMetricsFromEvents(events, t - window_duration_ms, t)),
       max_windows_stored)

\* the archive after RecordPrediction at time t, given the time lwc of the
\* last archived window
WindowsAfterRecord(windows, events, lwc, t) ==
  IF U64SubGE(t, lwc, window_duration_ms)
  THEN UpdateWindowedMetrics(windows, events, t)
  ELSE windows

\* RecordPrediction(model_id, event); an event is its timestamp and
\* was_correct.  The counter total_queries_served, which nothing reads, is
\* left out.
RecordPrediction(f, ok) ==
  /\ mutex_ = "free"
  /\ LET events == EventsAfterRecord(model_events[f], now, ok)
         due == U64SubGE(now, last_window_computation[f], window_duration_ms)
     IN /\ model_events' = [model_events EXCEPT ![f] = events]
        /\ model_windows' = [model_windows EXCEPT ![f] =
              WindowsAfterRecord(model_windows[f], events, last_window_computation[f], now)]
        /\ last_window_computation' = IF due
                                      THEN [last_window_computation EXCEPT ![f] = now]
                                      ELSE last_window_computation
  /\ tracked' = tracked \cup {f}
  /\ op' = Op("RecordPrediction", f, "void")
  /\ UNCHANGED <<now, model_health, mutex_, schedVars, storeVars, blockVars, adaptiveVars, lockVars>>

\* mutant: a RecordTrainingEvent that does not reset needs_retraining
HealthAfterTraining_KeepsFlag(h, timestamp_ms) ==
  [h EXCEPT !.last_retrain_timestamp_ms = timestamp_ms,
            !.retrain_count = h.retrain_count + 1,
            !.is_degrading = FALSE]

\* the health record RecordTrainingEvent(model_id, timestamp_ms, ..) leaves
HealthAfterTraining(h, timestamp_ms) ==
  [h EXCEPT !.last_retrain_timestamp_ms = timestamp_ms,
            !.retrain_count = h.retrain_count + 1,
            !.is_degrading = FALSE,
            !.needs_retraining = FALSE]

RecordTrainingEvent(f, timestamp_ms) ==
  /\ model_health' = [model_health EXCEPT ![f] = HealthAfterTraining(model_health[f], timestamp_ms)]
  /\ tracked' = tracked \cup {f}
  /\ UNCHANGED <<model_events, model_windows, last_window_computation, mutex_>>

\* AdaptiveSSTLearnedIndexManager::GetModelHealth: a caller's ComputeHealthMetrics
GetModelHealth(f) ==
  /\ mutex_ = "free"
  /\ \E outcome \in RelockOutcomes :
       /\ TrackerAfterCompute(f, outcome)
       /\ op' = OpFound("ComputeHealthMetrics", f,
                        CASE outcome = "proceed" -> "returned"
                          [] outcome = "deadlock" -> "hung"
                          [] OTHER -> "threw",
                        model_health[f].needs_retraining)
  /\ UNCHANGED <<now, schedVars, storeVars, blockVars, adaptiveVars, lockVars>>

\* mutant: a TrainModel that records the training event whatever the base
\* class returned
TrainModel_RecordsFailure(f, success, timestamp_ms) ==
  /\ model_health[f].retrain_count < MaxRetrains
  /\ mutex_ = "free"
  /\ RecordTrainingEvent(f, timestamp_ms)
  /\ op' = OpFound("TrainModel", f, IF success THEN "true" ELSE "false",
                  model_health[f].needs_retraining)
  /\ UNCHANGED <<now, schedVars, storeVars, blockVars, adaptiveVars, lockVars>>

\* AdaptiveSSTLearnedIndexManager::TrainModel called by a client; the
\* timestamp is the caller's reading of system_clock, which is not monotonic
\* and may be ahead of the tracker's later readings
TrainModel(f, success, timestamp_ms) ==
  /\ model_health[f].retrain_count < MaxRetrains
  /\ IF success
     THEN mutex_ = "free" /\ RecordTrainingEvent(f, timestamp_ms)
     ELSE UNCHANGED trackerVars
  /\ op' = OpFound("TrainModel", f, IF success THEN "true" ELSE "false",
                  model_health[f].needs_retraining)
  /\ UNCHANGED <<now, schedVars, storeVars, blockVars, adaptiveVars, lockVars>>

\* RecordPrediction(f, event) of the tracker, called by the operation n of
\* the adaptive manager with an event whose was_correct is ok
RecordEvent(n, f, ok) ==
  /\ mutex_ = "free"
  /\ LET events == EventsAfterRecord(model_events[f], now, ok)
         due == U64SubGE(now, last_window_computation[f], window_duration_ms)
     IN /\ model_events' = [model_events EXCEPT ![f] = events]
        /\ model_windows' = [model_windows EXCEPT ![f] =
              WindowsAfterRecord(model_windows[f], events, last_window_computation[f], now)]
        /\ last_window_computation' = IF due
                                      THEN [last_window_computation EXCEPT ![f] = now]
                                      ELSE last_window_computation
  /\ tracked' = tracked \cup {f}
  /\ op' = OpFound(n, f, "void", ok)
  /\ UNCHANGED <<model_health, mutex_>>

\* AdaptiveSSTLearnedIndexManager::PredictBlockIndex(f, key): the base
\* class prediction, and with monitoring active an event whose actual_block
\* is the predicted block and whose was_correct is true
AdaptivePredictBlockIndex(f) ==
  /\ IF adaptive_monitoring_active_
     THEN RecordEvent("PredictBlockIndex", f, TRUE)
     ELSE /\ op' = OpFound("PredictBlockIndex", f, "void", FALSE)
          /\ UNCHANGED trackerVars
  /\ UNCHANGED <<now, schedVars, storeVars, blockVars, adaptiveVars, lockVars>>

\* AdaptiveSSTLearnedIndexManager::RecordActualBlock(f, key, actual_block):
\* nothing without monitoring; otherwise a new prediction for the key and
\* an event with was_correct = (predicted_block == actual_block)
RecordActualBlock(f, was_correct) ==
  /\ IF adaptive_monitoring_active_
     THEN RecordEvent("RecordActualBlock", f, was_correct)
     ELSE /\ op' = OpFound("RecordActualBlock", f, "void", FALSE)
          /\ UNCHANGED trackerVars
  /\ UNCHANGED <<now, schedVars, storeVars, blockVars, adaptiveVars, lockVars>>

\* StartAdaptiveMonitoring() of a manager built without adaptive retraining
StartAdaptiveMonitoring ==
  /\ ~adaptive_monitoring_active_
  /\ adaptive_monitoring_active_' = TRUE
  /\ op' = Op("StartAdaptiveMonitoring", "-", "void")
  /\ UNCHANGED <<now, trackerVars, schedVars, storeVars, blockVars, retraining_config,
                 lockVars>>

\* StopAdaptiveMonitoring() of a manager built without adaptive retraining
StopAdaptiveMonitoring ==
  /\ adaptive_monitoring_active_' = FALSE
  /\ op' = Op("StopAdaptiveMonitoring", "-", "void")
  /\ UNCHANGED <<now, trackerVars, schedVars, storeVars, blockVars, retraining_config,
                 lockVars>>

Tick ==
  /\ now < MaxTime
  /\ now' = now + 1
  /\ op' = Internal
  /\ UNCHANGED <<trackerVars, schedVars, storeVars, blockVars, adaptiveVars, lockVars>>

(* ----------------------- AdaptiveRetrainingManager --------------------- *)

NoRequest == [model_id |-> "-", timestamp_ms |-> 0, trigger_reason |-> "-"]

Blocked == {w \in Workers : wpc[w] = "blocked"}

\* queue_cv_.notify_all(): every waiting worker goes on to reacquire the lock
NotifyAll(pc) == [w \in Workers |-> IF pc[w] = "blocked" THEN "lock" ELSE pc[w]]

\* mutant: a queue that pops in arrival order whatever the timestamps
Tops_ArrivalOrder == {i \in 1..Len(retraining_queue) : i = 1}

\* the requests a pop may return: the comparator orders by timestamp only
Tops == {i \in 1..Len(retraining_queue) :
           \A j \in 1..Len(retraining_queue) :
             retraining_queue[i].timestamp_ms <= retraining_queue[j].timestamp_ms}

RemoveAt(s, i) == SubSeq(s, 1, i - 1) \o SubSeq(s, i + 1, Len(s))

CountRequest(st, reason) ==
  [st EXCEPT !.total_retraining_requests = st.total_retraining_requests + 1,
             !.manual_triggers = IF reason = "manual" THEN st.manual_triggers + 1
                                 ELSE st.manual_triggers,
             !.automatic_triggers = IF reason = "manual" THEN st.automatic_triggers
                                    ELSE st.automatic_triggers + 1]

\* body of RequestRetraining(model_id, .., reason), with
\* enable_adaptive_retraining set, for one outcome of the ComputeHealthMetrics
\* call it makes; ret is what the caller gets
RequestRetrainingBody(f, reason, outcome, ret) ==
  /\ queue_mutex = "free"
  /\ IF Len(retraining_queue) >= retraining_queue_size \/ f \in models_being_retrained
     THEN /\ ret = "false"
          /\ UNCHANGED <<retraining_queue, stats, queue_mutex, wpc, trackerVars>>
     ELSE IF mutex_ # "free"
     THEN \* blocks on the tracker mutex with queue_mutex_ held
          /\ ret = "hung"
          /\ queue_mutex' = "hung"
          /\ UNCHANGED <<retraining_queue, stats, wpc, trackerVars>>
     ELSE /\ TrackerAfterCompute(f, outcome)
          /\ CASE outcome = "deadlock" ->
                    /\ ret = "hung"
                    /\ queue_mutex' = "hung"
                    /\ UNCHANGED <<retraining_queue, stats, wpc>>
               [] outcome = "throw" ->
                    /\ ret = "threw"
                    /\ UNCHANGED <<retraining_queue, stats, queue_mutex, wpc>>
               [] OTHER ->
                    /\ ret = "true"
                    /\ stats.total_retraining_requests < MaxRequests
                    /\ retraining_queue' = Append(retraining_queue,
                          [model_id |-> f, timestamp_ms |-> now, trigger_reason |-> reason])
                    /\ stats' = CountRequest(stats, reason)
                    /\ \/ Blocked = {} /\ wpc' = wpc
                       \/ \E w \in Blocked : wpc' = [wpc EXCEPT ![w] = "lock"]
                    /\ UNCHANGED queue_mutex

\* body of RequestEmergencyRetraining(model_id, ..)
RequestEmergencyRetrainingBody(f, outcome, ret) ==
  /\ queue_mutex = "free"
  /\ IF mutex_ # "free"
     THEN /\ ret = "hung"
          /\ queue_mutex' = "hung"
          /\ UNCHANGED <<retraining_queue, stats, wpc, trackerVars>>
     ELSE /\ TrackerAfterCompute(f, outcome)
          /\ CASE outcome = "deadlock" ->
                    /\ ret = "hung"
                    /\ queue_mutex' = "hung"
                    /\ UNCHANGED <<retraining_queue, stats, wpc>>
               [] outcome = "throw" ->
                    /\ ret = "threw"
                    /\ UNCHANGED <<retraining_queue, stats, queue_mutex, wpc>>
               [] OTHER ->
                    /\ ret = "true"
                    /\ stats.total_retraining_requests < MaxRequests
                    /\ retraining_queue' = Append(retraining_queue,
                          [model_id |-> f, timestamp_ms |-> 0, trigger_reason |-> "emergency"])
                    /\ stats' = CountRequest(stats, "emergency")
                    /\ wpc' = NotifyAll(wpc)
                    /\ UNCHANGED queue_mutex

Rets == {"true", "false", "hung", "threw"}

\* a client thread calls RequestRetraining
RequestRetraining(f, reason) ==
  /\ \E outcome \in RelockOutcomes, ret \in Rets :
       /\ RequestRetrainingBody(f, reason, outcome, ret)
       /\ op' = Op("RequestRetraining", f, ret)
  /\ UNCHANGED <<now, is_running, is_paused, should_stop, models_being_retrained,
                 active_retraining_count, wreq, wres, mon, stopper, storeVars, blockVars, adaptiveVars, lockVars>>

\* a client thread calls RequestEmergencyRetraining
RequestEmergencyRetraining(f) ==
  /\ \E outcome \in RelockOutcomes, ret \in Rets :
       /\ RequestEmergencyRetrainingBody(f, outcome, ret)
       /\ op' = Op("RequestEmergencyRetraining", f, ret)
  /\ UNCHANGED <<now, is_running, is_paused, should_stop, models_being_retrained,
                 active_retraining_count, wreq, wres, mon, stopper, storeVars, blockVars, adaptiveVars, lockVars>>


(* lifecycle *)

Start ==
  /\ ~is_running
  /\ stopper = "idle"
  /\ should_stop' = FALSE
  /\ is_running' = TRUE
  /\ is_paused' = FALSE
  /\ wpc' = [w \in Workers |-> "top"]
  /\ mon' = [mon EXCEPT !.pc = "top", !.todo = {}]
  /\ op' = Internal
  /\ UNCHANGED <<now, trackerVars, retraining_queue, models_being_retrained,
                 active_retraining_count, stats, queue_mutex, wreq, wres, stopper,
                 storeVars, blockVars, adaptiveVars, lockVars>>

\* Stop() up to the joins: set the flags and notify without holding queue_mutex_
StopSignal ==
  /\ is_running
  /\ stopper = "idle"
  /\ should_stop' = TRUE
  /\ is_running' = FALSE
  /\ wpc' = NotifyAll(wpc)
  /\ stopper' = "joining"
  /\ op' = Op("Stop", "-", "joining")
  /\ UNCHANGED <<now, trackerVars, is_paused, retraining_queue, models_being_retrained,
                 active_retraining_count, stats, queue_mutex, wreq, wres, mon, storeVars, blockVars, adaptiveVars, lockVars>>

\* the joins of Stop() return once every thread has left its loop
StopJoin ==
  /\ stopper = "joining"
  /\ mon.pc = "done"
  /\ \A w \in Workers : wpc[w] = "done"
  /\ wpc' = [w \in Workers |-> "none"]
  /\ mon' = [mon EXCEPT !.pc = "none"]
  /\ stopper' = "idle"
  /\ op' = Op("Stop", "-", "returned")
  /\ UNCHANGED <<now, trackerVars, is_running, is_paused, should_stop, retraining_queue,
                 models_being_retrained, active_retraining_count, stats, queue_mutex,
                 wreq, wres, storeVars, blockVars, adaptiveVars, lockVars>>

\* Start() of a scheduler configured with max_concurrent_retraining = 1: one
\* worker thread is started, and CanStartRetraining holds whenever that
\* worker is at the head of its loop
StartOneWorker ==
  /\ ~is_running
  /\ stopper = "idle"
  /\ should_stop' = FALSE
  /\ is_running' = TRUE
  /\ is_paused' = FALSE
  /\ wpc' = [w \in Workers |-> IF w = "w1" THEN "top" ELSE "none"]
  /\ mon' = [mon EXCEPT !.pc = "top", !.todo = {}]
  /\ op' = Internal
  /\ UNCHANGED <<now, trackerVars, retraining_queue, models_being_retrained,
                 active_retraining_count, stats, queue_mutex, wreq, wres, stopper,
                 storeVars, blockVars, adaptiveVars, lockVars>>

Pause ==
  /\ ~is_paused
  /\ is_paused' = TRUE
  /\ op' = Internal
  /\ UNCHANGED <<now, trackerVars, is_running, should_stop, retraining_queue,
                 models_being_retrained, active_retraining_count, stats, queue_mutex,
                 wpc, wreq, wres, mon, stopper, storeVars, blockVars, adaptiveVars, lockVars>>

Resume ==
  /\ is_paused
  /\ is_paused' = FALSE
  /\ wpc' = NotifyAll(wpc)
  /\ op' = Op("Resume", "-", "void")
  /\ UNCHANGED <<now, trackerVars, is_running, should_stop, retraining_queue,
                 models_being_retrained, active_retraining_count, stats, queue_mutex,
                 wreq, wres, mon, stopper, storeVars, blockVars, adaptiveVars, lockVars>>

(* WorkerLoop *)

WorkerFrame == <<now, is_running, is_paused, should_stop, mon, stopper, storeVars, blockVars, adaptiveVars, lockVars>>

\* while (!should_stop_.load())
WorkerTop(w) ==
  /\ wpc[w] = "top"
  /\ wpc' = [wpc EXCEPT ![w] = IF should_stop THEN "done" ELSE "lock"]
  /\ op' = Internal
  /\ UNCHANGED <<trackerVars, retraining_queue, models_being_retrained,
                 active_retraining_count, stats, queue_mutex, wreq, wres, WorkerFrame>>

\* unique_lock at the loop head, and the relock when a wait is notified
WorkerLock(w) ==
  /\ wpc[w] = "lock"
  /\ queue_mutex = "free"
  /\ queue_mutex' = w
  /\ wpc' = [wpc EXCEPT ![w] = "wait"]
  /\ op' = Internal
  /\ UNCHANGED <<trackerVars, retraining_queue, models_being_retrained,
                 active_retraining_count, stats, wreq, wres, WorkerFrame>>

CanStartRetraining == active_retraining_count < max_concurrent_retraining

\* with the lock held: the wait predicate, the should_stop_ check after the
\* wait and the check before the dequeue.  A false predicate leads to the
\* blocking wait; a worker that may not start a job unlocks, sleeps and
\* starts over.
WorkerWait(w) ==
  /\ wpc[w] = "wait"
  /\ IF should_stop
     THEN queue_mutex' = "free" /\ wpc' = [wpc EXCEPT ![w] = "done"]
     ELSE IF retraining_queue = <<>> \/ is_paused
     THEN queue_mutex' = queue_mutex /\ wpc' = [wpc EXCEPT ![w] = "toblock"]
     ELSE IF ~CanStartRetraining
     THEN queue_mutex' = "free" /\ wpc' = [wpc EXCEPT ![w] = "top"]
     ELSE queue_mutex' = queue_mutex /\ wpc' = [wpc EXCEPT ![w] = "dequeue"]
  /\ op' = Internal
  /\ UNCHANGED <<trackerVars, retraining_queue, models_being_retrained,
                 active_retraining_count, stats, wreq, wres, WorkerFrame>>

\* condition_variable::wait: release the lock and block
WorkerBlock(w) ==
  /\ wpc[w] = "toblock"
  /\ queue_mutex' = "free"
  /\ wpc' = [wpc EXCEPT ![w] = "blocked"]
  /\ op' = Internal
  /\ UNCHANGED <<trackerVars, retraining_queue, models_being_retrained,
                 active_retraining_count, stats, wreq, wres, WorkerFrame>>

\* top/pop, insert into models_being_retrained_, fetch_add, unlock
WorkerDequeue(w) ==
  /\ wpc[w] = "dequeue"
  /\ \E i \in Tops :
       /\ wreq' = [wreq EXCEPT ![w] = retraining_queue[i]]
       /\ retraining_queue' = RemoveAt(retraining_queue, i)
       /\ models_being_retrained' = models_being_retrained \cup {retraining_queue[i].model_id}
       /\ op' = Op("WorkerDequeue", retraining_queue[i].model_id, w)
  /\ active_retraining_count' = active_retraining_count + 1
  /\ queue_mutex' = "free"
  /\ wpc' = [wpc EXCEPT ![w] = "train"]
  /\ UNCHANGED <<trackerVars, stats, wres, WorkerFrame>>

\* ExecuteRetraining up to the result of TrainModel.  CollectTrainingData
\* finds collected_training_data_ empty and generates
\* min_new_samples_for_retrain samples, so the job fails through TrainModel
\* returning false or through an exception.  TrainModel is called through
\* the SSTLearnedIndexManager pointer index_manager_ and records no training
\* event itself.
ExecOutcomes == {"success", "train_failed", "exception"}

\* mutant: an ExecuteRetraining that records the training event before it
\* looks at what TrainModel returned
WorkerTrain_RecordsFailure(w) ==
  /\ wpc[w] = "train"
  /\ mutex_ = "free"
  /\ \E outcome \in ExecOutcomes :
       /\ wpc' = [wpc EXCEPT ![w] = IF outcome = "success" THEN "record" ELSE "finish"]
       /\ op' = Op("ExecuteRetraining", wreq[w].model_id, outcome)
       /\ IF outcome = "train_failed"
          THEN RecordTrainingEvent(wreq[w].model_id, now)
          ELSE UNCHANGED trackerVars
  /\ wres' = [wres EXCEPT ![w] = FALSE]
  /\ UNCHANGED <<retraining_queue, models_being_retrained,
                 active_retraining_count, stats, queue_mutex, wreq, WorkerFrame>>

WorkerTrain(w) ==
  /\ wpc[w] = "train"
  /\ \E outcome \in ExecOutcomes :
       /\ wpc' = [wpc EXCEPT ![w] = IF outcome = "success" THEN "record" ELSE "finish"]
       /\ op' = Op("ExecuteRetraining", wreq[w].model_id, outcome)
  /\ wres' = [wres EXCEPT ![w] = FALSE]
  /\ UNCHANGED <<trackerVars, retraining_queue, models_being_retrained,
                 active_retraining_count, stats, queue_mutex, wreq, WorkerFrame>>

\* ExecuteRetraining after a successful TrainModel: RecordTrainingEvent
WorkerRecord(w) ==
  /\ wpc[w] = "record"
  /\ mutex_ = "free"
  /\ RecordTrainingEvent(wreq[w].model_id, now)
  /\ wres' = [wres EXCEPT ![w] = TRUE]
  /\ wpc' = [wpc EXCEPT ![w] = "finish"]
  /\ op' = OpFound("WorkerRecord", wreq[w].model_id, "true",
                  model_health[wreq[w].model_id].needs_retraining)
  /\ UNCHANGED <<retraining_queue, models_being_retrained, active_retraining_count,
                 stats, queue_mutex, wreq, WorkerFrame>>

\* UpdateStats(result) without the moving average of the job durations
UpdateStats(st, success) ==
  IF success
  THEN [st EXCEPT !.successful_retrainings = st.successful_retrainings + 1]
  ELSE [st EXCEPT !.failed_retrainings = st.failed_retrainings + 1]

\* mutant: the end of a job without the fetch_sub
WorkerFinish_KeepsCount(w) ==
  /\ wpc[w] = "finish"
  /\ stats' = UpdateStats(stats, wres[w])
  /\ models_being_retrained' = models_being_retrained \ {wreq[w].model_id}
  /\ wreq' = [wreq EXCEPT ![w] = NoRequest]
  /\ wres' = [wres EXCEPT ![w] = FALSE]
  /\ wpc' = [wpc EXCEPT ![w] = "top"]
  /\ op' = Op("RetrainingResult", wreq[w].model_id, IF wres[w] THEN "true" ELSE "false")
  /\ UNCHANGED <<trackerVars, retraining_queue, active_retraining_count, queue_mutex,
                 WorkerFrame>>

\* the end of a job: UpdateStats(result), the result callback (its exceptions
\* are swallowed), erase from models_being_retrained_, fetch_sub
WorkerFinish(w) ==
  /\ wpc[w] = "finish"
  /\ stats' = UpdateStats(stats, wres[w])
  /\ models_being_retrained' = models_being_retrained \ {wreq[w].model_id}
  /\ active_retraining_count' = active_retraining_count - 1
  /\ wreq' = [wreq EXCEPT ![w] = NoRequest]
  /\ wres' = [wres EXCEPT ![w] = FALSE]
  /\ wpc' = [wpc EXCEPT ![w] = "top"]
  /\ op' = Op("RetrainingResult", wreq[w].model_id, IF wres[w] THEN "true" ELSE "false")
  /\ UNCHANGED <<trackerVars, retraining_queue, queue_mutex, WorkerFrame>>

(* MonitoringLoop *)

MonitorFrame == <<now, is_running, is_paused, should_stop, models_being_retrained,
                  active_retraining_count, wreq, wres, stopper, storeVars, blockVars, adaptiveVars, lockVars>>

\* while (!should_stop_.load()); an unpaused cycle starts with GetTrackedModels
MonitorTop ==
  /\ mon.pc = "top"
  /\ IF should_stop
     THEN mon' = [mon EXCEPT !.pc = "done", !.todo = {}]
     ELSE /\ ~is_paused
          /\ mutex_ = "free"
          /\ mon' = [mon EXCEPT !.pc = "scan", !.todo = tracked]
  /\ op' = Internal
  /\ UNCHANGED <<trackerVars, retraining_queue, stats, queue_mutex, wpc, MonitorFrame>>

\* CheckModelsForRetraining: ComputeHealthMetrics of the next tracked model;
\* the end of the list ends the cycle, an exception is caught by the loop
MonitorScan ==
  /\ mon.pc = "scan"
  /\ IF mon.todo = {}
     THEN /\ mon' = [mon EXCEPT !.pc = "top"]
          /\ op' = Internal
          /\ UNCHANGED trackerVars
     ELSE /\ mutex_ = "free"
          /\ \E f \in mon.todo, outcome \in RelockOutcomes :
               /\ TrackerAfterCompute(f, outcome)
               /\ mon' = CASE outcome = "proceed" ->
                                [pc |-> "trigger", todo |-> mon.todo \ {f}, file |-> f,
                                 needs |-> HealthAfterCompute(f).needs_retraining,
                                 acc |-> HealthAfterCompute(f).current_accuracy]
                           [] outcome = "deadlock" -> [mon EXCEPT !.pc = "hung"]
                           [] OTHER -> [mon EXCEPT !.pc = "top", !.todo = {}]
               /\ op' = Op("MonitorScan", f, outcome)
  /\ UNCHANGED <<retraining_queue, stats, queue_mutex, wpc, MonitorFrame>>

ShouldTriggerRetraining(f, needs) ==
  IF f \in models_being_retrained THEN FALSE ELSE needs

\* mutant: a scan that classifies every model as an emergency
IsEmergency_Always(acc) == TRUE

\* health.current_accuracy < emergency_retraining_threshold / 100.0
IsEmergency(acc) ==
  acc * 100 < retraining_config.emergency_retraining_threshold * AccScale

MonitorAfter(ret) ==
  CASE ret = "hung" -> [pc |-> "hung", todo |-> mon.todo, file |-> "-", needs |-> FALSE, acc |-> 0]
    [] ret = "threw" -> [pc |-> "top", todo |-> {}, file |-> "-", needs |-> FALSE, acc |-> 0]
    [] OTHER -> [pc |-> "scan", todo |-> mon.todo, file |-> "-", needs |-> FALSE, acc |-> 0]

\* CheckModelsForRetraining: the request for a model that needs retraining
MonitorTrigger ==
  /\ mon.pc = "trigger"
  /\ IF ShouldTriggerRetraining(mon.file, mon.needs)
     THEN \E outcome \in RelockOutcomes, ret \in Rets :
            /\ IF IsEmergency(mon.acc)
               THEN RequestEmergencyRetrainingBody(mon.file, outcome, ret)
               ELSE RequestRetrainingBody(mon.file, "automatic", outcome, ret)
            /\ mon' = MonitorAfter(ret)
            /\ op' = Op(IF IsEmergency(mon.acc) THEN "MonitorEmergency" ELSE "MonitorAutomatic",
                        mon.file, ret)
     ELSE /\ mon' = MonitorAfter("none")
          /\ op' = Op("MonitorSkip", mon.file, "void")
          /\ UNCHANGED <<trackerVars, retraining_queue, stats, queue_mutex, wpc>>
  /\ UNCHANGED MonitorFrame

(* --------------------------- LearnedIndexBlock ------------------------- *)

\* A field of a LearnedIndexBlock is kept as its object representation, the
\* bytes Serialize writes for it: integers little-endian, a double as its
\* IEEE 754 image.

RECURSIVE Pow256(_)
Pow256(k) == IF k = 0 THEN 1 ELSE 256 * Pow256(k - 1)

\* the w bytes of the unsigned integer n below 2^31, least significant first
LE(n, w) == [i \in 1..w |-> IF i <= 4 THEN (n \div Pow256(i - 1)) % 256 ELSE 0]
U32(n) == LE(n, 4)
U64(n) == LE(n, 8)

\* the doubles 0.0, 0.5, 1.0 and 2.5
D_0_0 == <<0, 0, 0, 0, 0, 0, 0, 0>>
D_0_5 == <<0, 0, 0, 0, 0, 0, 224, 63>>
D_1_0 == <<0, 0, 0, 0, 0, 0, 240, 63>>
D_2_5 == <<0, 0, 0, 0, 0, 0, 4, 64>>

\* 0x4C494458
LEARNED_INDEX_MAGIC_NUMBER == <<88, 68, 73, 76>>
LEARNED_INDEX_VERSION == U32(1)
\* ModelType::LINEAR
LINEAR == U32(1)

\* a count read from a file: its value, or CountLimit for every value from
\* CountLimit on
CountLimit == 65536
CountOf(word) ==
  IF word[3] = 0 /\ word[4] = 0 THEN word[1] + 256 * word[2] ELSE CountLimit

\* a count of 2^24 elements or more, for which reserve() may not get the
\* memory
HugeCount(word) == word[4] # 0

\* the value of a word that holds a number below 2^24
ValueOf(word) == word[1] + 256 * word[2] + 65536 * word[3]

\* ModelMetadata()
DefaultMetadata ==
  [training_samples |-> U64(0), training_accuracy |-> D_0_0,
   validation_accuracy |-> D_0_0, training_timestamp |-> U64(0),
   last_update_timestamp |-> U64(0)]

\* LearnedIndexBlock()
DefaultBlock ==
  [magic_number |-> LEARNED_INDEX_MAGIC_NUMBER, version |-> LEARNED_INDEX_VERSION,
   model_type |-> LINEAR, feature_dimensions |-> U32(1), parameter_count |-> U32(0),
   parameters |-> <<>>, metadata |-> DefaultMetadata, block_predictions |-> <<>>,
   checksum |-> U32(0)]

\* BlockPrediction(idx, start_key, end_key, conf)
BlockPrediction(idx, start_key, end_key, conf) ==
  [block_index |-> U32(idx), predicted_start_key |-> U64(start_key),
   predicted_end_key |-> U64(end_key), confidence |-> conf]

RECURSIVE Flatten(_)
Flatten(ss) == IF ss = <<>> THEN <<>> ELSE Head(ss) \o Flatten(Tail(ss))

\* the bytes Serialize writes for one BlockPrediction
PredictionBytes(q) ==
  q.block_index \o q.predicted_start_key \o q.predicted_end_key \o q.confidence

\* mutant: a Serialize that leaves out metadata.last_update_timestamp
Serialize_OmitsLastUpdate(b) ==
  b.magic_number \o b.version \o b.model_type \o b.feature_dimensions
  \o b.parameter_count
  \o Flatten(b.parameters)
  \o b.metadata.training_samples \o b.metadata.training_accuracy
  \o b.metadata.validation_accuracy \o b.metadata.training_timestamp
  \o U32(Len(b.block_predictions))
  \o Flatten([i \in 1..Len(b.block_predictions) |-> PredictionBytes(b.block_predictions[i])])
  \o b.checksum

\* LearnedIndexBlock::Serialize: header, the parameters the vector holds,
\* metadata, the number of block predictions and the predictions, checksum
Serialize(b) ==
  b.magic_number \o b.version \o b.model_type \o b.feature_dimensions
  \o b.parameter_count
  \o Flatten(b.parameters)
  \o b.metadata.training_samples \o b.metadata.training_accuracy
  \o b.metadata.validation_accuracy \o b.metadata.training_timestamp
  \o b.metadata.last_update_timestamp
  \o U32(Len(b.block_predictions))
  \o Flatten([i \in 1..Len(b.block_predictions) |-> PredictionBytes(b.block_predictions[i])])
  \o b.checksum

\* bitwise exclusive or of two integers below 2^n
RECURSIVE Xor(_, _, _)
Xor(a, b, n) ==
  IF n = 0 THEN 0
  ELSE ((a + b) % 2) + 2 * Xor(a \div 2, b \div 2, n - 1)

\* crc_table of crc32_fallback, every entry least significant byte first
crc_table ==
  <<
    <<0, 0, 0, 0>>, <<150, 48, 7, 119>>, <<44, 97, 14, 238>>, <<186, 81, 9, 153>>,
    <<25, 196, 109, 7>>, <<143, 244, 106, 112>>, <<53, 165, 99, 233>>, <<163, 149, 100, 158>>,
    <<50, 136, 219, 14>>, <<164, 184, 220, 121>>, <<30, 233, 213, 224>>, <<136, 217, 210, 151>>,
    <<43, 76, 182, 9>>, <<189, 124, 177, 126>>, <<7, 45, 184, 231>>, <<145, 29, 191, 144>>,
    <<100, 16, 183, 29>>, <<242, 32, 176, 106>>, <<72, 113, 185, 243>>, <<222, 65, 190, 132>>,
    <<125, 212, 218, 26>>, <<235, 228, 221, 109>>, <<81, 181, 212, 244>>, <<199, 133, 211, 131>>,
    <<86, 152, 108, 19>>, <<192, 168, 107, 100>>, <<122, 249, 98, 253>>, <<236, 201, 101, 138>>,
    <<79, 92, 1, 20>>, <<217, 108, 6, 99>>, <<99, 61, 15, 250>>, <<245, 13, 8, 141>>,
    <<200, 32, 110, 59>>, <<94, 16, 105, 76>>, <<228, 65, 96, 213>>, <<114, 113, 103, 162>>,
    <<209, 228, 3, 60>>, <<71, 212, 4, 75>>, <<253, 133, 13, 210>>, <<107, 181, 10, 165>>,
    <<250, 168, 181, 53>>, <<108, 152, 178, 66>>, <<214, 201, 187, 219>>, <<64, 249, 188, 172>>,
    <<227, 108, 216, 50>>, <<117, 92, 223, 69>>, <<207, 13, 214, 220>>, <<89, 61, 209, 171>>,
    <<172, 48, 217, 38>>, <<58, 0, 222, 81>>, <<128, 81, 215, 200>>, <<22, 97, 208, 191>>,
    <<181, 244, 180, 33>>, <<35, 196, 179, 86>>, <<153, 149, 186, 207>>, <<15, 165, 189, 184>>,
    <<158, 184, 2, 40>>, <<8, 136, 5, 95>>, <<178, 217, 12, 198>>, <<36, 233, 11, 177>>,
    <<135, 124, 111, 47>>, <<17, 76, 104, 88>>, <<171, 29, 97, 193>>, <<61, 45, 102, 182>>,
    <<144, 65, 220, 118>>, <<6, 113, 219, 1>>, <<188, 32, 210, 152>>, <<42, 16, 213, 239>>,
    <<137, 133, 177, 113>>, <<31, 181, 182, 6>>, <<165, 228, 191, 159>>, <<51, 212, 184, 232>>,
    <<162, 201, 7, 120>>, <<52, 249, 0, 15>>, <<142, 168, 9, 150>>, <<24, 152, 14, 225>>,
    <<187, 13, 106, 127>>, <<45, 61, 109, 8>>, <<151, 108, 100, 145>>, <<1, 92, 99, 230>>,
    <<244, 81, 107, 107>>, <<98, 97, 108, 28>>, <<216, 48, 101, 133>>, <<78, 0, 98, 242>>,
    <<237, 149, 6, 108>>, <<123, 165, 1, 27>>, <<193, 244, 8, 130>>, <<87, 196, 15, 245>>,
    <<198, 217, 176, 101>>, <<80, 233, 183, 18>>, <<234, 184, 190, 139>>, <<124, 136, 185, 252>>,
    <<223, 29, 221, 98>>, <<73, 45, 218, 21>>, <<243, 124, 211, 140>>, <<101, 76, 212, 251>>,
    <<88, 97, 178, 77>>, <<206, 81, 181, 58>>, <<116, 0, 188, 163>>, <<226, 48, 187, 212>>,
    <<65, 165, 223, 74>>, <<215, 149, 216, 61>>, <<109, 196, 209, 164>>, <<251, 244, 214, 211>>,
    <<106, 233, 105, 67>>, <<252, 217, 110, 52>>, <<70, 136, 103, 173>>, <<208, 184, 96, 218>>,
    <<115, 45, 4, 68>>, <<229, 29, 3, 51>>, <<95, 76, 10, 170>>, <<201, 124, 13, 221>>,
    <<60, 113, 5, 80>>, <<170, 65, 2, 39>>, <<16, 16, 11, 190>>, <<134, 32, 12, 201>>,
    <<37, 181, 104, 87>>, <<179, 133, 111, 32>>, <<9, 212, 102, 185>>, <<159, 228, 97, 206>>,
    <<14, 249, 222, 94>>, <<152, 201, 217, 41>>, <<34, 152, 208, 176>>, <<180, 168, 215, 199>>,
    <<23, 61, 179, 89>>, <<129, 13, 180, 46>>, <<59, 92, 189, 183>>, <<173, 108, 186, 192>>,
    <<32, 131, 184, 237>>, <<182, 179, 191, 154>>, <<12, 226, 182, 3>>, <<154, 210, 177, 116>>,
    <<57, 71, 213, 234>>, <<175, 119, 210, 157>>, <<21, 38, 219, 4>>, <<131, 22, 220, 115>>,
    <<18, 11, 99, 227>>, <<132, 59, 100, 148>>, <<62, 106, 109, 13>>, <<168, 90, 106, 122>>,
    <<11, 207, 14, 228>>, <<157, 255, 9, 147>>, <<39, 174, 0, 10>>, <<177, 158, 7, 125>>,
    <<68, 147, 15, 240>>, <<210, 163, 8, 135>>, <<104, 242, 1, 30>>, <<254, 194, 6, 105>>,
    <<93, 87, 98, 247>>, <<203, 103, 101, 128>>, <<113, 54, 108, 25>>, <<231, 6, 107, 110>>,
    <<118, 27, 212, 254>>, <<224, 43, 211, 137>>, <<90, 122, 218, 16>>, <<204, 74, 221, 103>>,
    <<111, 223, 185, 249>>, <<249, 239, 190, 142>>, <<67, 190, 183, 23>>, <<213, 142, 176, 96>>,
    <<232, 163, 214, 214>>, <<126, 147, 209, 161>>, <<196, 194, 216, 56>>, <<82, 242, 223, 79>>,
    <<241, 103, 187, 209>>, <<103, 87, 188, 166>>, <<221, 6, 181, 63>>, <<75, 54, 178, 72>>,
    <<218, 43, 13, 216>>, <<76, 27, 10, 175>>, <<246, 74, 3, 54>>, <<96, 122, 4, 65>>,
    <<195, 239, 96, 223>>, <<85, 223, 103, 168>>, <<239, 142, 110, 49>>, <<121, 190, 105, 70>>,
    <<140, 179, 97, 203>>, <<26, 131, 102, 188>>, <<160, 210, 111, 37>>, <<54, 226, 104, 82>>,
    <<149, 119, 12, 204>>, <<3, 71, 11, 187>>, <<185, 22, 2, 34>>, <<47, 38, 5, 85>>,
    <<190, 59, 186, 197>>, <<40, 11, 189, 178>>, <<146, 90, 180, 43>>, <<4, 106, 179, 92>>,
    <<167, 255, 215, 194>>, <<49, 207, 208, 181>>, <<139, 158, 217, 44>>, <<29, 174, 222, 91>>,
    <<176, 194, 100, 155>>, <<38, 242, 99, 236>>, <<156, 163, 106, 117>>, <<10, 147, 109, 2>>,
    <<169, 6, 9, 156>>, <<63, 54, 14, 235>>, <<133, 103, 7, 114>>, <<19, 87, 0, 5>>,
    <<130, 74, 191, 149>>, <<20, 122, 184, 226>>, <<174, 43, 177, 123>>, <<56, 27, 182, 12>>,
    <<155, 142, 210, 146>>, <<13, 190, 213, 229>>, <<183, 239, 220, 124>>, <<33, 223, 219, 11>>,
    <<212, 210, 211, 134>>, <<66, 226, 212, 241>>, <<248, 179, 221, 104>>, <<110, 131, 218, 31>>,
    <<205, 22, 190, 129>>, <<91, 38, 185, 246>>, <<225, 119, 176, 111>>, <<119, 71, 183, 24>>,
    <<230, 90, 8, 136>>, <<112, 106, 15, 255>>, <<202, 59, 6, 102>>, <<92, 11, 1, 17>>,
    <<255, 158, 101, 143>>, <<105, 174, 98, 248>>, <<211, 255, 107, 97>>, <<69, 207, 108, 22>>,
    <<120, 226, 10, 160>>, <<238, 210, 13, 215>>, <<84, 131, 4, 78>>, <<194, 179, 3, 57>>,
    <<97, 38, 103, 167>>, <<247, 22, 96, 208>>, <<77, 71, 105, 73>>, <<219, 119, 110, 62>>,
    <<74, 106, 209, 174>>, <<220, 90, 214, 217>>, <<102, 11, 223, 64>>, <<240, 59, 216, 55>>,
    <<83, 174, 188, 169>>, <<197, 158, 187, 222>>, <<127, 207, 178, 71>>, <<233, 255, 181, 48>>,
    <<28, 242, 189, 189>>, <<138, 194, 186, 202>>, <<48, 147, 179, 83>>, <<166, 163, 180, 36>>,
    <<5, 54, 208, 186>>, <<147, 6, 215, 205>>, <<41, 87, 222, 84>>, <<191, 103, 217, 35>>,
    <<46, 122, 102, 179>>, <<184, 74, 97, 196>>, <<2, 27, 104, 93>>, <<148, 43, 111, 42>>,
    <<55, 190, 11, 180>>, <<161, 142, 12, 195>>, <<27, 223, 5, 90>>, <<141, 239, 2, 45>>
  >>

\* one round of the loop: crc = crc_table[(crc ^ byte) & 0xFF] ^ (crc >> 8)
CrcStep(crc, byte) ==
  LET entry == crc_table[Xor(crc[1], byte, 8) + 1]
  IN <<Xor(entry[1], crc[2], 8), Xor(entry[2], crc[3], 8),
       Xor(entry[3], crc[4], 8), entry[4]>>

\* the rounds for bytes[i..], eight to a call
RECURSIVE CrcLoop(_, _, _)
CrcLoop(crc, bytes, i) ==
  IF i > Len(bytes) THEN crc
  ELSE IF i + 7 > Len(bytes)
  THEN LET c1 == CrcStep(crc, bytes[i])
       IN IF Len(c1) = 4 THEN CrcLoop(c1, bytes, i + 1) ELSE <<>>
  ELSE LET c1 == CrcStep(crc, bytes[i])
           c2 == CrcStep(c1, bytes[i + 1])
           c3 == CrcStep(c2, bytes[i + 2])
           c4 == CrcStep(c3, bytes[i + 3])
           c5 == CrcStep(c4, bytes[i + 4])
           c6 == CrcStep(c5, bytes[i + 5])
           c7 == CrcStep(c6, bytes[i + 6])
           c8 == CrcStep(c7, bytes[i + 7])
       IN IF Len(c8) = 4 THEN CrcLoop(c8, bytes, i + 8) ELSE <<>>

\* crc32_fallback(data, length): from 0xFFFFFFFF, complemented at the end
crc32_fallback(bytes) ==
  LET crc == CrcLoop(<<255, 255, 255, 255>>, bytes, 1)
  IN [i \in 1..4 |-> 255 - crc[i]]

\* the checksum of the serialized block without its checksum field
ChecksumOf(b) ==
  LET data == Serialize(b)
  IN crc32_fallback(SubSeq(data, 1, Len(data) - 4))

UpdateChecksum(b) == [b EXCEPT !.checksum = ChecksumOf(b)]

VerifyChecksum(b) == ChecksumOf(b) = b.checksum

IsValid(b) ==
  /\ b.magic_number = LEARNED_INDEX_MAGIC_NUMBER
  /\ b.version = LEARNED_INDEX_VERSION
  /\ CountOf(b.parameter_count) = Len(b.parameters)
  /\ VerifyChecksum(b)

\* an input stream over data: the position of the next byte (from 1) and
\* the fail flag; a read of w bytes that the data cannot serve copies the
\* bytes that are left and sets the flag, and no later read changes its
\* target
StreamAt(pos) == [pos |-> pos, fail |-> FALSE]

CanRead(data, st, w) == ~st.fail /\ st.pos + w - 1 <= Len(data)

AfterRead(data, st, w) ==
  IF CanRead(data, st, w)
  THEN [pos |-> st.pos + w, fail |-> FALSE]
  ELSE [pos |-> IF st.fail THEN st.pos ELSE Len(data) + 1, fail |-> TRUE]

\* the target of iss.read(&target, w), which held prev before
ReadField(data, st, w, prev) ==
  IF CanRead(data, st, w) THEN SubSeq(data, st.pos, st.pos + w - 1)
  ELSE IF st.fail THEN prev
  ELSE SubSeq(data, st.pos, Len(data)) \o SubSeq(prev, Len(data) - st.pos + 2, w)

\* the number of whole elements of w bytes that a loop of n reads gets
WholeReads(data, st, n, w) ==
  IF st.fail THEN 0
  ELSE LET left == (Len(data) - st.pos + 1) \div w
       IN IF n <= left THEN n ELSE left

\* the stream after a loop of n reads of w bytes
AfterLoop(data, st, n, w) ==
  LET k == WholeReads(data, st, n, w)
      read == [pos |-> st.pos + k * w, fail |-> st.fail]
  IN IF k = n THEN read ELSE AfterRead(data, read, w)

\* the BlockPrediction read from the 28 bytes at pos
PredictionAt(data, pos) ==
  [block_index |-> SubSeq(data, pos, pos + 3),
   predicted_start_key |-> SubSeq(data, pos + 4, pos + 11),
   predicted_end_key |-> SubSeq(data, pos + 12, pos + 19),
   confidence |-> SubSeq(data, pos + 20, pos + 27)]

\* LearnedIndexBlock::Deserialize(data) on an object that holds old: the
\* value returned and the object afterwards.  The elements a loop pushes
\* after the stream has failed are indeterminate and are left out; the
\* loop count of the predictions is indeterminate when its read failed.
Deserialize(old, data) ==
  IF Len(data) < 8 THEN [ret |-> "false", huge |-> FALSE, block |-> old]
  ELSE
  LET magic == SubSeq(data, 1, 4)
      vers == SubSeq(data, 5, 8)
  IN
  IF magic # LEARNED_INDEX_MAGIC_NUMBER
  THEN [ret |-> "false", huge |-> FALSE,
        block |-> [old EXCEPT !.magic_number = magic]]
  ELSE IF vers # LEARNED_INDEX_VERSION
  THEN [ret |-> "false", huge |-> FALSE,
        block |-> [old EXCEPT !.magic_number = magic, !.version = vers]]
  ELSE
  LET s0 == StreamAt(9)
      model_type == ReadField(data, s0, 4, old.model_type)
      s1 == AfterRead(data, s0, 4)
      feature_dimensions == ReadField(data, s1, 4, old.feature_dimensions)
      s2 == AfterRead(data, s1, 4)
      parameter_count == ReadField(data, s2, 4, old.parameter_count)
      s3 == AfterRead(data, s2, 4)
      np == WholeReads(data, s3, CountOf(parameter_count), 8)
      parameters == [i \in 1..np |->
                       SubSeq(data, s3.pos + 8 * (i - 1), s3.pos + 8 * i - 1)]
      s4 == AfterLoop(data, s3, CountOf(parameter_count), 8)
      training_samples == ReadField(data, s4, 8, old.metadata.training_samples)
      s5 == AfterRead(data, s4, 8)
      training_accuracy == ReadField(data, s5, 8, old.metadata.training_accuracy)
      s6 == AfterRead(data, s5, 8)
      validation_accuracy == ReadField(data, s6, 8, old.metadata.validation_accuracy)
      s7 == AfterRead(data, s6, 8)
      training_timestamp == ReadField(data, s7, 8, old.metadata.training_timestamp)
      s8 == AfterRead(data, s7, 8)
      last_update_timestamp ==
        ReadField(data, s8, 8, old.metadata.last_update_timestamp)
      s9 == AfterRead(data, s8, 8)
      prediction_count == ReadField(data, s9, 4, U32(0))
      s10 == AfterRead(data, s9, 4)
      nq == WholeReads(data, s10, CountOf(prediction_count), 28)
      block_predictions == [i \in 1..nq |-> PredictionAt(data, s10.pos + 28 * (i - 1))]
      s11 == AfterLoop(data, s10, CountOf(prediction_count), 28)
      checksum == ReadField(data, s11, 4, old.checksum)
      s12 == AfterRead(data, s11, 4)
  IN [ret |-> IF s12.fail THEN "false" ELSE "true",
      huge |-> HugeCount(parameter_count) \/ s10.fail \/ HugeCount(prediction_count),
      block |-> [magic_number |-> magic, version |-> vers,
                 model_type |-> model_type,
                 feature_dimensions |-> feature_dimensions,
                 parameter_count |-> parameter_count,
                 parameters |-> parameters,
                 metadata |-> [training_samples |-> training_samples,
                               training_accuracy |-> training_accuracy,
                               validation_accuracy |-> validation_accuracy,
                               training_timestamp |-> training_timestamp,
                               last_update_timestamp |-> last_update_timestamp],
                 block_predictions |-> block_predictions,
                 checksum |-> checksum]]

\* no model file written yet
NoFile == [data |-> <<>>, corrupted |-> 0]

(* ------------------------ SSTLearnedIndexManager ----------------------- *)

\* model_cache_ maps a path to an entry of kind "absent" (no key), "model"
\* (a CachedModel) or "null" (the empty unique_ptr that operator[]
\* default-constructs)
Absent == [kind |-> "absent", last_access_time |-> 0, access_count |-> 0]
NullEntry == [kind |-> "null", last_access_time |-> 0, access_count |-> 0]
CachedModel(t, n) == [kind |-> "model", last_access_time |-> t, access_count |-> n]

CachedPaths == {p \in Paths : model_cache[p].kind # "absent"}

\* SSTLearnedIndexStats of a path that file_stats_ does not hold
NoStats == [total_queries |-> 0, successful_predictions |-> 0, fallback_queries |-> 0]

\* the thread inside PredictBlockIndex: where it is, the path asked, how the
\* lookup went ("hit", or after a miss "unloadable", "loaded", "vanished"),
\* whether the entry its iterator refers to was erased or replaced since,
\* the value it is going to return and the confidence it read
IdlePred == [pc |-> "idle", path |-> "-", via |-> "-", stale |-> FALSE,
             block |-> -1, conf |-> 0]

\* the predicting thread after another thread erased or replaced the
\* entries of the paths changed: an iterator obtained under a lock that is
\* no longer held is left referring to a destroyed CachedModel
PredAfterMutation(changed) ==
  IF pred.pc = "access" /\ cache_mutex # "pred" /\ pred.path \in changed
  THEN [pred EXCEPT !.stale = TRUE]
  ELSE pred

\* model_cache_.size()
CacheSize == Cardinality(CachedPaths)

\* position of the first occurrence of p in s; 0 when there is none
RECURSIVE IndexOf(_, _)
IndexOf(s, p) ==
  IF s = <<>> THEN 0
  ELSE IF Head(s) = p THEN 1
  ELSE IF IndexOf(Tail(s), p) = 0 THEN 0 ELSE 1 + IndexOf(Tail(s), p)

\* std::find followed by erase of the iterator found
EraseFirst(s, p) == IF IndexOf(s, p) = 0 THEN s ELSE RemoveAt(s, IndexOf(s, p))

\* the values a read through a null CachedModel pointer may deliver when it
\* does not fault: one below and one above every clock value
GarbageTimes == {0, MaxTime + 1}

\* last_access_time read from the entry of p; garbage stands for the read
\* through a null pointer
TimeOf(cache, p, garbage) ==
  IF cache[p].kind = "null" THEN garbage ELSE cache[p].last_access_time

\* the loop of EvictLeastRecentlyUsed over access_order_[i..], from the
\* candidate lru with time oldest
RECURSIVE ScanLRU(_, _, _, _, _, _)
ScanLRU(cache, order, i, lru, oldest, garbage) ==
  IF i > Len(order) THEN lru
  ELSE IF cache[order[i]].kind # "absent" /\ TimeOf(cache, order[i], garbage) < oldest
  THEN ScanLRU(cache, order, i + 1, order[i], TimeOf(cache, order[i], garbage), garbage)
  ELSE ScanLRU(cache, order, i + 1, lru, oldest, garbage)

\* EvictLeastRecentlyUsed on a cache and an access order, for a given value
\* of the reads through null pointers
EvictWith(cache, order, garbage) ==
  LET front == Head(order)
      \* model_cache_[lru_file_path] inserts a null entry for a missing key
      c1 == IF cache[front].kind = "absent" THEN [cache EXCEPT ![front] = NullEntry] ELSE cache
      lru == ScanLRU(c1, order, 1, front, TimeOf(c1, front, garbage), garbage)
  IN [cache |-> [c1 EXCEPT ![lru] = Absent],
      order |-> EraseFirst(order, lru),
      evicted |-> {lru},
      crashed |-> FALSE]

\* an eviction dereferences a null pointer when access_order_ names a path
\* that model_cache_ does not hold, or holds as a null entry
EvictDereferencesNull(cache, order) ==
  \/ cache[Head(order)].kind \in {"absent", "null"}
  \/ \E i \in 1..Len(order) : cache[order[i]].kind = "null"

\* the outcomes of EvictLeastRecentlyUsed(): the null dereference is
\* undefined behaviour, which faults or reads garbage
EvictLeastRecentlyUsed(cache, order) ==
  IF order = <<>>
  THEN {[cache |-> cache, order |-> order, evicted |-> {}, crashed |-> FALSE]}
  ELSE IF EvictDereferencesNull(cache, order)
  THEN {[cache |-> cache, order |-> order, evicted |-> {}, crashed |-> TRUE]}
       \cup {EvictWith(cache, order, g) : g \in GarbageTimes}
  ELSE {EvictWith(cache, order, 0)}

\* the cache call made by a step: its name, its path, how it ended, whether
\* it found the cache at capacity, what it evicted and, for a
\* PredictBlockIndex call, the value returned
StoreOp(n, p, r, full, evicted) ==
  [name |-> n, file |-> p, ret |-> r, full |-> full, evicted |-> evicted, block |-> -1]

\* "Add to cache" of CreateLearnedIndex and LoadLearnedIndex: evict when
\* at capacity, then insert the new CachedModel and push the path
AddToCache(n, p) ==
  /\ Len(access_order) < MaxOrderLen
  /\ LET full == CacheSize >= max_cache_size
     IN \E e \in IF full
                 THEN EvictLeastRecentlyUsed(model_cache, access_order)
                 ELSE {[cache |-> model_cache, order |-> access_order,
                        evicted |-> {}, crashed |-> FALSE]} :
          IF e.crashed
          THEN /\ crashed' = TRUE
               /\ op' = StoreOp(n, p, "crashed", full, {})
               /\ UNCHANGED <<model_cache, access_order, ins_order>>
          ELSE /\ model_cache' = [e.cache EXCEPT ![p] = CachedModel(now, 1)]
               /\ access_order' = Append(e.order, p)
               /\ ins_order' =
                    LET kept == SelectSeq(ins_order, LAMBDA q : q \notin e.evicted)
                    IN IF IndexOf(kept, p) = 0 THEN Append(kept, p) ELSE kept
               /\ crashed' = crashed
               /\ op' = StoreOp(n, p, "true", full, e.evicted)

\* the results of SaveModelToFile: the model written; the stream not
\* opened; the stream opened, which truncates the file, and the write failed
SaveResults == {"saved", "not_opened", "write_failed"}

\* the model files after SaveModelToFile for p
DiskAfterSave(p, saved) ==
  CASE saved = "saved" -> disk \cup {p}
    [] saved = "not_opened" -> disk
    [] saved = "write_failed" -> disk \ {p}

\* mutant: a CreateLearnedIndex that drops the cached entry of the file
\* when it fails
CreateLearnedIndex_DropsEntryOnFailure(p, trained, saved) ==
  /\ ~crashed
  /\ cache_mutex = "free"
  /\ IF enabled /\ trained /\ saved = "saved"
     THEN /\ disk' = DiskAfterSave(p, saved)
          /\ AddToCache("CreateLearnedIndex", p)
     ELSE /\ op' = StoreOp("CreateLearnedIndex", p, "false", FALSE, {})
          /\ model_cache' = [model_cache EXCEPT ![p] = Absent]
          /\ access_order' = EraseFirst(access_order, p)
          /\ UNCHANGED <<disk, crashed, ins_order>>
  /\ pred' = PredAfterMutation(IF op'.ret = "true" THEN op'.evicted \cup {p} ELSE {})
  /\ UNCHANGED <<now, max_cache_size, enabled, cache_mutex, file_stats,
                 trackerVars, schedVars, blockVars, adaptiveVars, lockVars>>

\* CreateLearnedIndex(sst_file_path, key_block_pairs): trained stands for
\* data of at least two pairs, which TrainLinearModel turns into a valid
\* model, saved for what SaveModelToFile does
CreateLearnedIndex(p, trained, saved) ==
  /\ ~crashed
  /\ cache_mutex = "free"
  /\ IF enabled /\ trained /\ saved = "saved"
     THEN /\ disk' = DiskAfterSave(p, saved)
          /\ AddToCache("CreateLearnedIndex", p)
     ELSE /\ op' = StoreOp("CreateLearnedIndex", p, "false", FALSE, {})
          /\ disk' = IF enabled /\ trained THEN DiskAfterSave(p, saved) ELSE disk
          /\ UNCHANGED <<model_cache, access_order, crashed, ins_order>>
  /\ pred' = PredAfterMutation(IF op'.ret = "true" THEN op'.evicted \cup {p} ELSE {})
  /\ UNCHANGED <<now, max_cache_size, enabled, cache_mutex, file_stats,
                 trackerVars, schedVars, blockVars, adaptiveVars, lockVars>>

\* the path whose model file is kept byte by byte in `serialized` once it
\* has been written; the model files of the other paths, and of this path
\* before, are kept as the set `disk` of the files SaveModelToFile has
\* written in full
RecordPath == "A"

\* LoadModelFromFile(sst_file_path) followed by the test
\* !model || !model->IsValid() of LoadLearnedIndex: "null" when the file
\* cannot be opened or Deserialize returns false, "invalid" when IsValid
\* fails, "model" otherwise; with a huge count the reserve() may also end
\* the call with std::bad_alloc
LoadModelFromFile(p) ==
  IF p = RecordPath /\ serialized # NoFile
  THEN LET r == Deserialize(DefaultBlock, serialized.data)
       IN (IF r.huge THEN {"bad_alloc"} ELSE {})
          \cup {IF r.ret # "true" THEN "null"
                ELSE IF IsValid(r.block) THEN "model" ELSE "invalid"}
  ELSE IF p \in disk THEN {"model"} ELSE {"null"}

\* the body of LoadLearnedIndex(sst_file_path), which locks cache_mutex_
\* for its duration; an exception leaves through the guard's destructor
LoadLearnedIndexBody(p) ==
  /\ cache_mutex = "free"
  /\ IF ~enabled
     THEN /\ op' = StoreOp("LoadLearnedIndex", p, "false", FALSE, {})
          /\ UNCHANGED <<model_cache, access_order, crashed, ins_order>>
     ELSE IF model_cache[p].kind = "null"
     THEN \* it->second-> on an empty unique_ptr
          /\ crashed' = TRUE
          /\ op' = StoreOp("LoadLearnedIndex", p, "crashed", FALSE, {})
          /\ UNCHANGED <<model_cache, access_order, ins_order>>
     ELSE IF model_cache[p].kind # "absent"
     THEN /\ model_cache[p].access_count < MaxAccessCount
          /\ model_cache' = [model_cache EXCEPT ![p] =
                CachedModel(now, model_cache[p].access_count + 1)]
          /\ op' = StoreOp("LoadLearnedIndex", p, "true", FALSE, {})
          /\ UNCHANGED <<access_order, crashed, ins_order>>
     ELSE \E loaded \in LoadModelFromFile(p) :
            IF loaded = "model"
            THEN AddToCache("LoadLearnedIndex", p)
            ELSE /\ op' = StoreOp("LoadLearnedIndex", p,
                                  IF loaded = "bad_alloc" THEN "bad_alloc" ELSE "false",
                                  FALSE, {})
                 /\ UNCHANGED <<model_cache, access_order, crashed, ins_order>>

\* LoadLearnedIndex(sst_file_path) called by a client
LoadLearnedIndex(p) ==
  /\ ~crashed
  /\ LoadLearnedIndexBody(p)
  /\ pred' = PredAfterMutation(IF op'.ret = "true" THEN op'.evicted ELSE {})
  /\ UNCHANGED <<now, disk, max_cache_size, enabled, cache_mutex, file_stats,
                 trackerVars, schedVars, blockVars, adaptiveVars, lockVars>>

\* mutant: a RemoveLearnedIndex that clears the statistics of every file
RemoveLearnedIndex_ClearsAllStats(p) ==
  /\ ~crashed
  /\ cache_mutex = "free"
  /\ model_cache' = [model_cache EXCEPT ![p] = Absent]
  /\ access_order' = EraseFirst(access_order, p)
  /\ ins_order' = SelectSeq(ins_order, LAMBDA q : q # p)
  /\ file_stats' = [q \in Paths |-> NoStats]
  /\ op' = StoreOp("RemoveLearnedIndex", p, "void", FALSE, {})
  /\ pred' = PredAfterMutation({p})
  /\ UNCHANGED <<now, disk, crashed, max_cache_size, enabled, cache_mutex,
                 trackerVars, schedVars, blockVars, adaptiveVars, lockVars>>

\* RemoveLearnedIndex(sst_file_path)
RemoveLearnedIndex(p) ==
  /\ ~crashed
  /\ cache_mutex = "free"
  /\ model_cache' = [model_cache EXCEPT ![p] = Absent]
  /\ access_order' = EraseFirst(access_order, p)
  /\ ins_order' = SelectSeq(ins_order, LAMBDA q : q # p)
  /\ file_stats' = [file_stats EXCEPT ![p] = NoStats]
  /\ op' = StoreOp("RemoveLearnedIndex", p, "void", FALSE, {})
  /\ pred' = PredAfterMutation({p})
  /\ UNCHANGED <<now, disk, crashed, max_cache_size, enabled, cache_mutex,
                 trackerVars, schedVars, blockVars, adaptiveVars, lockVars>>

\* ClearCache()
ClearCache ==
  /\ ~crashed
  /\ cache_mutex = "free"
  /\ model_cache' = [p \in Paths |-> Absent]
  /\ access_order' = <<>>
  /\ ins_order' = <<>>
  /\ file_stats' = [p \in Paths |-> NoStats]
  /\ op' = StoreOp("ClearCache", "-", "void", FALSE, {})
  /\ pred' = PredAfterMutation(Paths)
  /\ UNCHANGED <<now, disk, crashed, max_cache_size, enabled, cache_mutex,
                 trackerVars, schedVars, blockVars, adaptiveVars, lockVars>>

\* the loop of UpdateOptions, while (model_cache_.size() >
\* options_.max_cache_size) EvictLeastRecentlyUsed(): the results it may end
\* with.  An eviction with access_order_ empty returns at once and the loop
\* never ends ("hung"); an eviction that faults ends the process.
RECURSIVE EvictExcess(_, _, _)
EvictExcess(cache, order, max) ==
  IF Cardinality({p \in Paths : cache[p].kind # "absent"}) <= max
  THEN {[cache |-> cache, order |-> order, evicted |-> {}, ret |-> "void"]}
  ELSE IF order = <<>>
  THEN {[cache |-> cache, order |-> order, evicted |-> {}, ret |-> "hung"]}
  ELSE UNION {IF e.crashed
              THEN {[cache |-> cache, order |-> order, evicted |-> {}, ret |-> "crashed"]}
              ELSE {[r EXCEPT !.evicted = @ \cup e.evicted] :
                      r \in EvictExcess(e.cache, e.order, max)} :
              e \in EvictLeastRecentlyUsed(cache, order)}

\* UpdateOptions(new_options) with options that differ from the current
\* ones in max_cache_size only
UpdateOptions(new_max_cache_size) ==
  /\ ~crashed
  /\ cache_mutex = "free"
  /\ max_cache_size' = new_max_cache_size
  /\ \E r \in EvictExcess(model_cache, access_order, new_max_cache_size) :
       /\ model_cache' = r.cache
       /\ access_order' = r.order
       /\ ins_order' = SelectSeq(ins_order, LAMBDA q : q \notin r.evicted)
       /\ crashed' = (r.ret = "crashed")
       /\ cache_mutex' = IF r.ret = "hung" THEN "UpdateOptions" ELSE cache_mutex
       /\ op' = StoreOp("UpdateOptions", "-", r.ret, FALSE, r.evicted)
       /\ pred' = PredAfterMutation(r.evicted)
  /\ UNCHANGED <<now, disk, enabled, file_stats,
                 trackerVars, schedVars, blockVars, adaptiveVars, lockVars>>

(* PredictBlockIndex *)

\* UpdateStats(sst_file_path, prediction_successful, error) without the
\* rolling average of the error
UpdateStatsOfFile(fs, p, prediction_successful) ==
  [fs EXCEPT ![p] =
     [total_queries |-> @.total_queries + 1,
      successful_predictions |-> @.successful_predictions
                                 + (IF prediction_successful THEN 1 ELSE 0),
      fallback_queries |-> @.fallback_queries
                           + (IF prediction_successful THEN 0 ELSE 1)]]

\* mutant: a PredictBlockIndex that returns the predicted block whatever the
\* confidence
PredictResult_IgnoresConfidence(block, conf) == block

\* the value returned for a model that predicts block with confidence conf
PredictResult(block, conf) == IF conf < confidence_threshold THEN -1 ELSE block

PredictOp(p, r, block) ==
  [StoreOp("PredictBlockIndex", p, r, FALSE, {}) EXCEPT !.block = block]

StoreInternal == StoreOp("-", "-", "void", FALSE, {})

\* PredictBlockIndex(sst_file_path, key) up to the first lookup: a disabled
\* manager returns -1 at once; otherwise lock, find, and on a miss the
\* explicit call of the guard's destructor, which unlocks
PredictCall(p) ==
  /\ ~crashed
  /\ pred.pc = "idle"
  /\ IF ~enabled
     THEN /\ op' = PredictOp(p, "returned", -1)
          /\ UNCHANGED <<pred, cache_mutex>>
     ELSE /\ file_stats[p].total_queries < MaxQueries
          /\ cache_mutex = "free"
          /\ IF model_cache[p].kind # "absent"
             THEN /\ cache_mutex' = "pred"
                  /\ pred' = [IdlePred EXCEPT !.pc = "access", !.path = p, !.via = "hit"]
             ELSE /\ cache_mutex' = "free"
                  /\ pred' = [IdlePred EXCEPT !.pc = "load", !.path = p]
          /\ op' = StoreInternal
  /\ UNCHANGED <<now, model_cache, access_order, max_cache_size, disk, crashed,
                 ins_order, enabled, file_stats, trackerVars, schedVars, blockVars, adaptiveVars, lockVars>>

\* after a miss: LoadLearnedIndex(sst_file_path) and, when it fails,
\* UpdateStats(false) and the result -1; an exception of the load unwinds
\* the call
PredictLoad ==
  /\ ~crashed
  /\ pred.pc = "load"
  /\ LoadLearnedIndexBody(pred.path)
  /\ CASE op'.ret = "true" ->
            /\ pred' = [pred EXCEPT !.pc = "relock"]
            /\ file_stats' = file_stats
       [] op'.ret = "false" ->
            /\ pred' = [pred EXCEPT !.pc = "exit", !.via = "unloadable", !.block = -1]
            /\ file_stats' = UpdateStatsOfFile(file_stats, pred.path, FALSE)
       [] op'.ret = "bad_alloc" ->
            /\ pred' = [pred EXCEPT !.pc = "exit", !.via = "threw", !.block = -1]
            /\ file_stats' = file_stats
       [] OTHER ->
            /\ pred' = pred
            /\ file_stats' = file_stats
  /\ UNCHANGED <<now, disk, max_cache_size, enabled, cache_mutex, trackerVars, schedVars, blockVars, adaptiveVars, lockVars>>

\* after a successful load: new_lock, the second lookup, and the end of
\* the block, which releases new_lock
PredictRelock ==
  /\ ~crashed
  /\ pred.pc = "relock"
  /\ cache_mutex = "free"
  /\ IF model_cache[pred.path].kind # "absent"
     THEN /\ pred' = [pred EXCEPT !.pc = "access", !.via = "loaded"]
          /\ file_stats' = file_stats
     ELSE /\ pred' = [pred EXCEPT !.pc = "exit", !.via = "vanished", !.block = -1]
          /\ file_stats' = UpdateStatsOfFile(file_stats, pred.path, FALSE)
  /\ op' = StoreInternal
  /\ UNCHANGED <<now, model_cache, access_order, max_cache_size, disk, crashed,
                 ins_order, enabled, cache_mutex, trackerVars, schedVars, blockVars, adaptiveVars, lockVars>>

\* the access through the iterator: the access statistics of the entry,
\* the model's prediction and confidence, the threshold check and
\* UpdateStats.  An iterator that refers to no CachedModel (a null entry,
\* an entry erased or replaced meanwhile) is dereferenced all the same:
\* undefined behaviour, which faults or reads and writes dead memory.
PredictAccess ==
  /\ ~crashed
  /\ pred.pc = "access"
  /\ \E block \in Blocks, conf \in Confidences :
       IF model_cache[pred.path].kind = "model" /\ ~pred.stale
       THEN /\ model_cache' = [model_cache EXCEPT ![pred.path] =
                  CachedModel(now, model_cache[pred.path].access_count + 1)]
            /\ file_stats' = UpdateStatsOfFile(file_stats, pred.path,
                                               ~(conf < confidence_threshold))
            /\ pred' = [pred EXCEPT !.pc = "exit", !.conf = conf,
                                    !.block = PredictResult(block, conf)]
            /\ crashed' = crashed
       ELSE \/ /\ crashed' = TRUE
               /\ UNCHANGED <<model_cache, file_stats, pred>>
            \/ /\ file_stats' = UpdateStatsOfFile(file_stats, pred.path,
                                                  ~(conf < confidence_threshold))
               /\ pred' = [pred EXCEPT !.pc = "exit", !.conf = conf,
                                       !.block = PredictResult(block, conf)]
               /\ UNCHANGED <<model_cache, crashed>>
  /\ op' = StoreInternal
  /\ UNCHANGED <<now, access_order, max_cache_size, disk, ins_order, enabled,
                 cache_mutex, trackerVars, schedVars, blockVars, adaptiveVars, lockVars>>

\* what std::mutex::unlock may do on a mutex its caller does not hold
\* (undefined behaviour): nothing, or abort the process
StrayUnlockOutcomes == {"ignored", "abort"}

\* the return, or the unwinding of an exception: the destructor of the
\* guard `lock` runs and unlocks cache_mutex_, also when its explicit call
\* has unlocked it already
PredictExit ==
  /\ ~crashed
  /\ pred.pc = "exit"
  /\ IF cache_mutex = "pred"
     THEN /\ cache_mutex' = "free"
          /\ crashed' = crashed
          /\ op' = PredictOp(pred.path, "returned", pred.block)
     ELSE \E outcome \in StrayUnlockOutcomes :
            /\ cache_mutex' = cache_mutex
            /\ crashed' = (outcome = "abort")
            /\ op' = IF outcome = "abort"
                     THEN PredictOp(pred.path, "crashed", -1)
                     ELSE PredictOp(pred.path,
                                    IF pred.via = "threw" THEN "bad_alloc" ELSE "returned",
                                    pred.block)
  /\ pred' = IdlePred
  /\ UNCHANGED <<now, model_cache, access_order, max_cache_size, disk, ins_order,
                 enabled, file_stats, trackerVars, schedVars, blockVars, adaptiveVars, lockVars>>

\* the wall clock of the cache's callers
StoreTick ==
  /\ ~crashed
  /\ now < MaxTime
  /\ now' = now + 1
  /\ op' = StoreOp("-", "-", "void", FALSE, {})
  /\ UNCHANGED <<storeVars, trackerVars, schedVars, blockVars, adaptiveVars, lockVars>>

(* ---------------------- LearnedIndexBlock calls ------------------------ *)

\* the parameter vectors and block predictions given to a block under
\* construction, and the bit flipped in a byte of a model file
ParameterInputs == {<<D_0_5>>, <<D_2_5, D_1_0>>}
PredictionInputs == {BlockPrediction(0, 100, 200, D_1_0), BlockPrediction(1, 300, 400, D_0_5)}
Masks == {1, 128}

NotDeserialized == [ret |-> "none", block |-> DefaultBlock]

BlockOp(n, r) == StoreOp(n, "-", r, FALSE, {})

BlockFrame == <<now, trackerVars, schedVars, storeVars, linear_, adaptiveVars, lockVars>>

\* UpdateModelParameters(new_parameters)
UpdateModelParameters(new_parameters) ==
  /\ serialized = NoFile
  /\ block_' = UpdateChecksum(
       [block_ EXCEPT !.parameters = new_parameters,
                      !.parameter_count = U32(Len(new_parameters)),
                      !.metadata.last_update_timestamp = U64(now)])
  /\ op' = BlockOp("UpdateModelParameters", "void")
  /\ UNCHANGED <<serialized, deserialized, BlockFrame>>

\* an assignment to the public member parameters, which leaves
\* parameter_count and checksum as they are
AssignParameters(new_parameters) ==
  /\ serialized = NoFile
  /\ block_.parameters # new_parameters
  /\ block_' = [block_ EXCEPT !.parameters = new_parameters]
  /\ op' = BlockOp("AssignParameters", "void")
  /\ UNCHANGED <<serialized, deserialized, BlockFrame>>

\* the position std::sort gives a prediction among predictions with other
\* start keys
RECURSIVE InsertSorted(_, _)
InsertSorted(qs, q) ==
  IF qs = <<>> THEN <<q>>
  ELSE IF ValueOf(q.predicted_start_key) < ValueOf(Head(qs).predicted_start_key)
  THEN <<q>> \o qs
  ELSE <<Head(qs)>> \o InsertSorted(Tail(qs), q)

\* AddBlockPrediction(prediction): push_back and sort by start key
AddBlockPrediction(q) ==
  /\ serialized = NoFile
  /\ \A i \in 1..Len(block_.block_predictions) :
       block_.block_predictions[i].predicted_start_key # q.predicted_start_key
  /\ block_' = [block_ EXCEPT !.block_predictions = InsertSorted(@, q)]
  /\ op' = BlockOp("AddBlockPrediction", "void")
  /\ UNCHANGED <<serialized, deserialized, BlockFrame>>

\* UpdateChecksum()
UpdateChecksumCall ==
  /\ serialized = NoFile
  /\ block_.checksum # ChecksumOf(block_)
  /\ block_' = UpdateChecksum(block_)
  /\ op' = BlockOp("UpdateChecksum", "void")
  /\ UNCHANGED <<serialized, deserialized, BlockFrame>>

\* Serialize(), the result written to a model file
SerializeCall ==
  /\ serialized = NoFile
  /\ serialized' = [data |-> Serialize(block_), corrupted |-> 0]
  /\ op' = BlockOp("Serialize", "void")
  /\ UNCHANGED <<block_, deserialized, BlockFrame>>

\* the corruption of one byte of the model file
Corrupt(i, mask) ==
  /\ serialized # NoFile
  /\ serialized.corrupted = 0
  /\ deserialized = NotDeserialized
  /\ i \in 1..Len(serialized.data)
  /\ serialized' = [data |-> [serialized.data EXCEPT ![i] = Xor(@, mask, 8)],
                    corrupted |-> i]
  /\ op' = BlockOp("Corrupt", "void")
  /\ UNCHANGED <<block_, deserialized, BlockFrame>>

\* Deserialize(data) of the model file on a fresh LearnedIndexBlock; with
\* a huge count the reserve() may also end the call with std::bad_alloc
DeserializeCall ==
  /\ serialized # NoFile
  /\ deserialized = NotDeserialized
  /\ LET r == Deserialize(DefaultBlock, serialized.data)
     IN \E ret \in IF r.huge THEN {r.ret, "bad_alloc"} ELSE {r.ret} :
          /\ deserialized' = [ret |-> ret, block |-> r.block]
          /\ op' = BlockOp("Deserialize", ret)
  /\ UNCHANGED <<block_, serialized, BlockFrame>>

(* ------------------- TrainLinearModel and prediction -------------------- *)

\* Doubles are kept as exact fractions [num, den] in lowest terms with
\* den > 0; the products stay below 2^31 for the training data used here.
Abs(n) == IF n < 0 THEN 0 - n ELSE n

RECURSIVE Gcd(_, _)
Gcd(a, b) == IF b = 0 THEN a ELSE Gcd(b, a % b)

Rat(n, d) ==
  LET g == Gcd(Abs(n), Abs(d))
  IN IF d < 0 THEN [num |-> (0 - n) \div g, den |-> (0 - d) \div g]
     ELSE [num |-> n \div g, den |-> d \div g]

RInt(n) == [num |-> n, den |-> 1]
RAdd(a, b) == Rat(a.num * b.den + b.num * a.den, a.den * b.den)
RSub(a, b) == Rat(a.num * b.den - b.num * a.den, a.den * b.den)
RMul(a, b) == Rat(a.num * b.num, a.den * b.den)
RDiv(a, b) == Rat(a.num * b.den, a.den * b.num)
RAbs(a) == [num |-> Abs(a.num), den |-> a.den]
RMax0(a) == IF a.num < 0 THEN RInt(0) ELSE a

\* static_cast<int>(double): the fraction is dropped
Truncate(a) == IF a.num >= 0 THEN a.num \div a.den ELSE 0 - ((0 - a.num) \div a.den)

\* a confidence in percent, rounded down
Percent(a) == (100 * a.num) \div a.den

\* the sum of f[i] over i in 1..n
RECURSIVE SumTo(_, _)
SumTo(f, n) == IF n = 0 THEN 0 ELSE f[n] + SumTo(f, n - 1)

RECURSIVE RSumTo(_, _)
RSumTo(f, n) == IF n = 0 THEN RInt(0) ELSE RAdd(RSumTo(f, n - 1), f[n])

\* no model: the nullptr of TrainLinearModel, a file never trained
NoLinear ==
  [kind |-> "none", slope |-> RInt(0), intercept |-> RInt(0),
   block_predictions |-> <<>>, training_samples |-> 0,
   training_accuracy |-> RInt(0)]

\* slope * key + intercept
LinearPosition(slope, intercept, key) == RAdd(RMul(slope, RInt(key)), intercept)

\* TrainLinearModel(training_data), for training data in ascending key
\* order with at least two different keys
TrainLinearModel(training_data) ==
  LET n == Len(training_data)
      sum_x == SumTo([i \in 1..n |-> training_data[i].key], n)
      sum_y == SumTo([i \in 1..n |-> training_data[i].block], n)
      sum_xy == SumTo([i \in 1..n |-> training_data[i].key * training_data[i].block], n)
      sum_x2 == SumTo([i \in 1..n |-> training_data[i].key * training_data[i].key], n)
      slope == Rat(n * sum_xy - sum_x * sum_y, n * sum_x2 - sum_x * sum_x)
      intercept == RDiv(RSub(RInt(sum_y), RMul(slope, RInt(sum_x))), RInt(n))
      error == [i \in 1..n |->
                  RAbs(RSub(LinearPosition(slope, intercept, training_data[i].key),
                            RInt(training_data[i].block)))]
      total_error == RSumTo(error, n)
  IN IF n < 2 THEN NoLinear
     ELSE [kind |-> "model", slope |-> slope, intercept |-> intercept,
           block_predictions |->
             [i \in 1..n |->
                [block_index |-> training_data[i].block,
                 predicted_start_key |-> training_data[i].key,
                 predicted_end_key |-> training_data[i].key,
                 confidence |-> RMax0(RSub(RInt(1), RDiv(error[i], RInt(10))))]],
           training_samples |-> n,
           training_accuracy |->
             RMax0(RSub(RInt(1), RDiv(RDiv(total_error, RInt(n)), RInt(10))))]

\* LearnedIndexBlock::PredictBlockIndex(key) of a trained linear model
PredictBlockIndex(model, key) ==
  IF model.kind # "model" \/ model.block_predictions = <<>> THEN -1
  ELSE LET predicted_block ==
             Truncate(LinearPosition(model.slope, model.intercept, key))
           last == Len(model.block_predictions) - 1
       IN IF predicted_block < 0 THEN 0
          ELSE IF predicted_block > last THEN last ELSE predicted_block

\* LearnedIndexBlock::GetPredictionConfidence(key)
GetPredictionConfidence(model, key) ==
  LET block_index == PredictBlockIndex(model, key)
  IN IF block_index >= 0 /\ block_index < Len(model.block_predictions)
     THEN model.block_predictions[block_index + 1].confidence
     ELSE RInt(0)

\* the training data of a file with m0 keys in block 0 and m1 keys in
\* block 1, the keys 100 apart
MaxKeysPerBlock == 10
TrainingData(m0, m1) ==
  [i \in 1..(m0 + m1) |->
     [key |-> 100 * (i - 1), block |-> IF i <= m0 THEN 0 ELSE 1]]

\* TrainLinearModel of each of these training data
TrainedModels ==
  [m0 \in 0..MaxKeysPerBlock |->
     [m1 \in 0..MaxKeysPerBlock |-> TrainLinearModel(TrainingData(m0, m1))]]

\* the keys looked up
LookupKeys == {0, 450, 950, 1450, 1900}

\* the (key, block) pairs a model was trained with
KeyBlockPairs(model) ==
  [i \in 1..Len(model.block_predictions) |->
     [key |-> model.block_predictions[i].predicted_start_key,
      block |-> model.block_predictions[i].block_index]]

LinearFrame ==
  <<now, trackerVars, schedVars, storeVars, block_, serialized, deserialized, adaptiveVars, lockVars>>

LinearOp(n, r, key, block) ==
  [name |-> n, file |-> "-", ret |-> r, full |-> FALSE, evicted |-> {},
   block |-> block, key |-> key]

\* CreateLearnedIndex(f, key_block_pairs) of an enabled manager whose model
\* file can be written, model being TrainLinearModel(key_block_pairs):
\* false for empty data and for a nullptr, otherwise the trained model
\* becomes the model of f
CreateLinearIndex(key_block_pairs, model) ==
  IF key_block_pairs = <<>> \/ model.kind # "model"
  THEN /\ op' = LinearOp("CreateLearnedIndex", "false", -1, -1)
       /\ UNCHANGED <<linear_, LinearFrame>>
  ELSE /\ linear_' = model
       /\ op' = LinearOp("CreateLearnedIndex", "true", -1, -1)
       /\ UNCHANGED LinearFrame

\* PredictBlockIndex(f, key) of the manager, f in the cache or loaded from
\* its model file: the block of the model, or -1 below the confidence
\* threshold and for a file without a model
PredictLinear(key) ==
  /\ op' = LinearOp("PredictBlockIndex", "value", key,
                    IF linear_.kind # "model" THEN -1
                    ELSE PredictResult(PredictBlockIndex(linear_, key),
                                       Percent(GetPredictionConfidence(linear_, key))))
  /\ UNCHANGED <<linear_, LinearFrame>>

\* a new LearnedIndexBlock, no model file, no trained model
InitBlock ==
  /\ block_ = DefaultBlock
  /\ serialized = NoFile
  /\ deserialized = NotDeserialized
  /\ linear_ = NoLinear

(* ------------------------- threads and mutexes -------------------------- *)

\* The calls of the scheduler, the tracker and the cache manager reduced to
\* the lock and unlock steps they perform, in program order.

Threads == {"caller1", "caller2", "worker", "monitor"}

\* queue_mutex_, models_mutex_, stats_mutex_ and training_data_mutex_ of
\* the scheduler, mutex_ of the tracker, cache_mutex_ and stats_mutex_ of
\* the cache manager
Mutexes == {"queue", "models", "sched_stats", "training_data", "tracker",
            "cache", "file_stats"}

Lock(m) == [do |-> "lock", m |-> m]
Unlock(m) == [do |-> "unlock", m |-> m]

\* ComputeHealthMetrics: mutex_, and mutex_ again in ComputeCurrentMetrics
ComputeHealthMetricsLocks ==
  <<Lock("tracker"), Lock("tracker"), Unlock("tracker"), Unlock("tracker")>>

\* RequestRetraining: rejected for a full queue, rejected for a file in
\* flight, or accepted
RequestRetrainingLocks ==
  {<<Lock("queue"), Unlock("queue")>>,
   <<Lock("queue"), Lock("models"), Unlock("models"), Unlock("queue")>>,
   <<Lock("queue"), Lock("models"), Unlock("models")>>
     \o ComputeHealthMetricsLocks
     \o <<Lock("sched_stats"), Unlock("sched_stats"), Unlock("queue")>>}

RequestEmergencyRetrainingLocks ==
  {<<Lock("queue")>> \o ComputeHealthMetricsLocks
     \o <<Lock("sched_stats"), Unlock("sched_stats"), Unlock("queue")>>}

\* one iteration of WorkerLoop, as the stretches between which the worker
\* holds no mutex: the wait with nothing to start, the dequeue,
\* CollectTrainingData, RecordTrainingEvent, UpdateStats and the erase
\* from models_being_retrained_
WorkerLoopLocks ==
  {<<Lock("queue"), Unlock("queue")>>,
   <<Lock("queue"), Lock("models"), Unlock("models"), Unlock("queue")>>,
   <<Lock("training_data"), Unlock("training_data")>>,
   <<Lock("tracker"), Unlock("tracker")>>,
   <<Lock("sched_stats"), Unlock("sched_stats")>>,
   <<Lock("models"), Unlock("models")>>}

\* one cycle of MonitoringLoop, as the stretches between which the thread
\* holds no mutex: GetTrackedModels, ComputeHealthMetrics,
\* ShouldTriggerRetraining, a request, and last_monitoring_cycle_ms
MonitoringLoopLocks ==
  {<<Lock("tracker"), Unlock("tracker")>>,
   ComputeHealthMetricsLocks,
   <<Lock("models"), Unlock("models")>>,
   <<Lock("sched_stats"), Unlock("sched_stats")>>}
  \cup RequestRetrainingLocks \cup RequestEmergencyRetrainingLocks

\* RecordPrediction, RecordTrainingEvent and the other tracker calls that
\* lock mutex_ once
TrackerCallLocks == {<<Lock("tracker"), Unlock("tracker")>>}

\* PredictBlockIndex: a hit; a miss with a failed load; a miss with a load
\* and a second lookup.  After a miss the guard is destroyed explicitly and
\* once more at the return.
PredictBlockIndexLocks ==
  LET miss == <<Lock("cache"), Unlock("cache"), Lock("cache"), Unlock("cache")>>
      update == <<Lock("file_stats"), Unlock("file_stats")>>
  IN {<<Lock("cache")>> \o update \o <<Unlock("cache")>>,
      miss \o update \o <<Unlock("cache")>>,
      miss \o <<Lock("cache"), Unlock("cache")>> \o update \o <<Unlock("cache")>>}

\* mutant: a RemoveLearnedIndex that locks the statistics first
RemoveLearnedIndexLocks_StatsFirst ==
  {<<Lock("file_stats"), Lock("cache"), Unlock("cache"), Unlock("file_stats")>>}

\* RemoveLearnedIndex: cache_mutex_, then stats_mutex_, both to the return
RemoveLearnedIndexLocks ==
  {<<Lock("cache"), Lock("file_stats"), Unlock("file_stats"), Unlock("cache")>>}

ClearCacheLocks ==
  {<<Lock("cache"), Lock("file_stats"), Unlock("file_stats"), Unlock("cache")>>}

\* CreateLearnedIndex, LoadLearnedIndex, UpdateOptions, HasLearnedIndex
CacheCallLocks == {<<Lock("cache"), Unlock("cache")>>}

\* GetStats and GetAggregatedStats of the cache manager
GetStatsLocks == {<<Lock("file_stats"), Unlock("file_stats")>>}

\* the calls of the cache manager that hold their locks to the return
CacheManagerCalls ==
  RemoveLearnedIndexLocks \cup ClearCacheLocks \cup CacheCallLocks \cup GetStatsLocks

\* the calls a thread makes: the worker and the monitoring thread run their
\* loops, one client calls the scheduler, the tracker and the cache
\* manager, the other the cache manager
CallsOf(t) ==
  IF t = "worker" THEN WorkerLoopLocks
  ELSE IF t = "monitor" THEN MonitoringLoopLocks
  ELSE IF t = "caller1"
  THEN RequestRetrainingLocks \cup RequestEmergencyRetrainingLocks
       \cup TrackerCallLocks \cup {ComputeHealthMetricsLocks}
       \cup PredictBlockIndexLocks \cup CacheManagerCalls
  ELSE CacheManagerCalls

LockFrame == <<now, trackerVars, schedVars, storeVars, blockVars, adaptiveVars>>

\* thread t enters a call
BeginCall(t) ==
  /\ thread_todo[t] = <<>>
  /\ \E steps \in CallsOf(t) : thread_todo' = [thread_todo EXCEPT ![t] = steps]
  /\ op' = Internal
  /\ UNCHANGED <<lock_holder, LockFrame>>

\* std::mutex::lock by thread t: it waits while another thread holds the
\* mutex; locking a mutex the thread holds itself is undefined behaviour
\* (it blocks for good, throws std::system_error, which ends the call and
\* releases its guards, or goes on)
LockStep(t) ==
  /\ thread_todo[t] # <<>>
  /\ Head(thread_todo[t]).do = "lock"
  /\ LET m == Head(thread_todo[t]).m
     IN IF lock_holder[m] = t
        THEN \E outcome \in RelockOutcomes :
               CASE outcome = "proceed" ->
                      /\ thread_todo' = [thread_todo EXCEPT ![t] = Tail(@)]
                      /\ lock_holder' = lock_holder
                 [] outcome = "deadlock" ->
                      /\ thread_todo' = [thread_todo EXCEPT ![t] =
                                           <<[do |-> "blocked", m |-> m]>> \o Tail(@)]
                      /\ lock_holder' = lock_holder
                 [] OTHER ->
                      /\ thread_todo' = [thread_todo EXCEPT ![t] = <<>>]
                      /\ lock_holder' = [k \in Mutexes |->
                                           IF lock_holder[k] = t THEN "none"
                                           ELSE lock_holder[k]]
        ELSE /\ lock_holder[m] = "none"
             /\ lock_holder' = [lock_holder EXCEPT ![m] = t]
             /\ thread_todo' = [thread_todo EXCEPT ![t] = Tail(@)]
  /\ op' = Internal
  /\ UNCHANGED LockFrame

\* what std::mutex::unlock may do in a thread that does not hold the mutex
\* (undefined behaviour): nothing, abort the process, or release the mutex
\* from under the thread that holds it
StrayUnlockOfHeld == StrayUnlockOutcomes \cup {"released"}

\* std::mutex::unlock by thread t
UnlockStep(t) ==
  /\ thread_todo[t] # <<>>
  /\ Head(thread_todo[t]).do = "unlock"
  /\ LET m == Head(thread_todo[t]).m
     IN IF lock_holder[m] = t
        THEN /\ lock_holder' = [lock_holder EXCEPT ![m] = "none"]
             /\ thread_todo' = [thread_todo EXCEPT ![t] = Tail(@)]
        ELSE \E outcome \in StrayUnlockOfHeld :
               CASE outcome = "ignored" ->
                      /\ lock_holder' = lock_holder
                      /\ thread_todo' = [thread_todo EXCEPT ![t] = Tail(@)]
                 [] outcome = "released" ->
                      /\ lock_holder' = [lock_holder EXCEPT ![m] = "none"]
                      /\ thread_todo' = [thread_todo EXCEPT ![t] = Tail(@)]
                 [] OTHER ->
                      /\ lock_holder' = lock_holder
                      /\ thread_todo' = [u \in Threads |-> <<[do |-> "aborted", m |-> m]>>]
  /\ op' = Internal
  /\ UNCHANGED LockFrame

(* --------------------------- specifications ---------------------------- *)

InitTracker ==
  /\ model_events = [f \in Files |-> <<>>]
  /\ model_windows = [f \in Files |-> <<>>]
  /\ model_health = [f \in Files |-> DefaultHealth]
  /\ tracked = {}
  /\ last_window_computation = [f \in Files |-> 0]
  /\ mutex_ = "free"

\* no thread is inside a call and every mutex is free
InitLocks ==
  /\ lock_holder = [m \in Mutexes |-> "none"]
  /\ thread_todo = [t \in Threads |-> <<>>]

\* AdaptiveSSTLearnedIndexManager constructor with the default
\* retraining configuration
InitAdaptive ==
  /\ adaptive_monitoring_active_ = FALSE
  /\ retraining_config = [emergency_retraining_threshold |-> emergency_retraining_threshold]

InitSched ==
  /\ is_running = FALSE
  /\ is_paused = FALSE
  /\ should_stop = FALSE
  /\ retraining_queue = <<>>
  /\ models_being_retrained = {}
  /\ active_retraining_count = 0
  /\ stats = [total_retraining_requests |-> 0, successful_retrainings |-> 0,
              failed_retrainings |-> 0, automatic_triggers |-> 0, manual_triggers |-> 0]
  /\ queue_mutex = "free"
  /\ wpc = [w \in Workers |-> "none"]
  /\ wreq = [w \in Workers |-> NoRequest]
  /\ wres = [w \in Workers |-> FALSE]
  /\ mon = [pc |-> "none", todo |-> {}, file |-> "-", needs |-> FALSE, acc |-> 0]
  /\ stopper = "idle"

InitStoreEmpty ==
  /\ model_cache = [p \in Paths |-> Absent]
  /\ access_order = <<>>
  /\ disk = {}
  /\ crashed = FALSE
  /\ ins_order = <<>>
  /\ max_cache_size = MaxCache
  /\ enabled = TRUE
  /\ cache_mutex = "free"
  /\ pred = IdlePred
  /\ file_stats = [p \in Paths |-> NoStats]
  /\ InitBlock

\* the tracker after two incorrect predictions of every file were recorded
\* at T0 by a freshly constructed tracker
InitTrackerLoaded ==
  LET e1 == EventsAfterRecord(<<>>, T0, FALSE)
      w1 == WindowsAfterRecord(<<>>, e1, 0, T0)
      e2 == EventsAfterRecord(e1, T0, FALSE)
      w2 == WindowsAfterRecord(w1, e2, T0, T0)
  IN /\ model_events = [f \in Files |-> e2]
     /\ model_windows = [f \in Files |-> w2]
     /\ model_health = [f \in Files |-> DefaultHealth]
     /\ tracked = Files
     /\ last_window_computation = [f \in Files |-> T0]
     /\ mutex_ = "free"

\* the scheduler: clients requesting and training, the workers
Init ==
  /\ now = T0
  /\ InitTrackerLoaded
  /\ InitSched
  /\ InitAdaptive
  /\ InitLocks
  /\ InitStoreEmpty
  /\ op = Op("Init", "-", "void")

Next ==
  \/ Start
  \/ \E f \in Files : RequestRetraining(f, "manual")
  \/ \E f \in Files : RequestEmergencyRetraining(f)
  \/ \E f \in Files, success \in BOOLEAN : TrainModel(f, success, now)
  \/ \E w \in Workers : WorkerTop(w)
  \/ \E w \in Workers : WorkerLock(w)
  \/ \E w \in Workers : WorkerWait(w)
  \/ \E w \in Workers : WorkerBlock(w)
  \/ \E w \in Workers : WorkerDequeue(w)
  \/ \E w \in Workers : WorkerTrain(w)
  \/ \E w \in Workers : WorkerRecord(w)
  \/ \E w \in Workers : WorkerFinish(w)

Spec == Init /\ [][Next]_vars

\* the scheduler with its monitoring thread
NextMonitor ==
  \/ Start
  \/ \E f \in Files : RequestRetraining(f, "manual")
  \/ \E f \in Files : RequestEmergencyRetraining(f)
  \/ \E w \in Workers : WorkerTop(w)
  \/ \E w \in Workers : WorkerLock(w)
  \/ \E w \in Workers : WorkerWait(w)
  \/ \E w \in Workers : WorkerBlock(w)
  \/ \E w \in Workers : WorkerDequeue(w)
  \/ \E w \in Workers : WorkerTrain(w)
  \/ \E w \in Workers : WorkerRecord(w)
  \/ \E w \in Workers : WorkerFinish(w)
  \/ MonitorTop
  \/ MonitorScan
  \/ MonitorTrigger

SpecMonitor == Init /\ [][NextMonitor]_vars

\* the scheduler with its monitoring thread, configured with an emergency
\* threshold that some accuracies reach
PercentEmergencyThreshold == 40

\* a tracker that has recorded an incorrect prediction of each file and
\* then a prediction that was correct or not
InitTrackerRecorded ==
  \E ok \in BOOLEAN :
    LET e1 == EventsAfterRecord(<<>>, T0, FALSE)
        w1 == WindowsAfterRecord(<<>>, e1, 0, T0)
        e2 == EventsAfterRecord(e1, T0, ok)
        w2 == WindowsAfterRecord(w1, e2, T0, T0)
    IN /\ model_events = [f \in Files |-> e2]
       /\ model_windows = [f \in Files |-> w2]
       /\ model_health = [f \in Files |-> DefaultHealth]
       /\ tracked = Files
       /\ last_window_computation = [f \in Files |-> T0]
       /\ mutex_ = "free"

InitClassify ==
  /\ now = T0
  /\ InitTrackerRecorded
  /\ InitSched
  /\ adaptive_monitoring_active_ = FALSE
  /\ retraining_config = [emergency_retraining_threshold |-> PercentEmergencyThreshold]
  /\ InitLocks
  /\ InitStoreEmpty
  /\ op = Op("Init", "-", "void")

\* the monitoring thread and the workers, without requests of clients
NextClassify ==
  \/ Start
  \/ \E w \in Workers : WorkerTop(w)
  \/ \E w \in Workers : WorkerLock(w)
  \/ \E w \in Workers : WorkerWait(w)
  \/ \E w \in Workers : WorkerBlock(w)
  \/ \E w \in Workers : WorkerDequeue(w)
  \/ \E w \in Workers : WorkerTrain(w)
  \/ \E w \in Workers : WorkerRecord(w)
  \/ \E w \in Workers : WorkerFinish(w)
  \/ MonitorTop
  \/ MonitorScan
  \/ MonitorTrigger

SpecClassify == InitClassify /\ [][NextClassify]_vars

\* the scheduler with Stop, Pause and Resume
NextLifecycle ==
  \/ Start
  \/ StopSignal
  \/ StopJoin
  \/ Pause
  \/ Resume
  \/ \E f \in Files : RequestRetraining(f, "manual")
  \/ \E f \in Files : RequestEmergencyRetraining(f)
  \/ \E w \in Workers : WorkerTop(w)
  \/ \E w \in Workers : WorkerLock(w)
  \/ \E w \in Workers : WorkerWait(w)
  \/ \E w \in Workers : WorkerBlock(w)
  \/ \E w \in Workers : WorkerDequeue(w)
  \/ \E w \in Workers : WorkerTrain(w)
  \/ \E w \in Workers : WorkerRecord(w)
  \/ \E w \in Workers : WorkerFinish(w)
  \/ MonitorTop
  \/ MonitorScan
  \/ MonitorTrigger

SpecLifecycle == Init /\ [][NextLifecycle]_vars

\* any step of the worker thread w
WorkerStep(w) ==
  \/ WorkerTop(w)
  \/ WorkerLock(w)
  \/ WorkerWait(w)
  \/ WorkerBlock(w)
  \/ WorkerDequeue(w)
  \/ WorkerTrain(w)
  \/ WorkerRecord(w)
  \/ WorkerFinish(w)

\* the scheduler core with threads that keep running: a worker thread that
\* can take a step eventually takes one (the operating system schedules
\* every runnable thread, and the training of a job terminates); nothing is
\* assumed of the clients
SpecFair == Init /\ [][Next]_vars /\ \A w \in Workers : WF_vars(WorkerStep(w))

\* any step of the monitoring thread
MonitorStep == MonitorTop \/ MonitorScan \/ MonitorTrigger

\* the scheduler started and stopped: Start, Stop, the clients' requests,
\* the workers and the monitoring thread
NextStop ==
  \/ Start
  \/ StopSignal
  \/ StopJoin
  \/ \E f \in Files : RequestRetraining(f, "manual")
  \/ \E w \in Workers : WorkerStep(w)
  \/ MonitorStep

\* every thread that can take a step eventually takes one, the thread
\* inside Stop() included; nothing is assumed of the clients
SpecStop ==
  /\ Init
  /\ [][NextStop]_vars
  /\ \A w \in Workers : WF_vars(WorkerStep(w))
  /\ WF_vars(MonitorStep)
  /\ WF_vars(StopJoin)

\* the queue fed by several kinds of callers under a running clock:
\* RequestRetraining with the reasons used by clients and by the monitor
NextQueue ==
  \/ Start
  \/ Tick
  \/ \E f \in Files, reason \in {"manual", "automatic"} : RequestRetraining(f, reason)
  \/ \E w \in Workers : WorkerStep(w)

SpecQueue == Init /\ [][NextQueue]_vars

\* the running scheduler paused and resumed: Start, Pause, Resume, the
\* clients' requests and the workers
NextPause ==
  \/ Start
  \/ Pause
  \/ Resume
  \/ \E f \in Files : RequestRetraining(f, "manual")
  \/ \E w \in Workers : WorkerStep(w)

\* every worker thread that can take a step eventually takes one; nothing
\* is assumed of the clients
SpecPause ==
  /\ Init
  /\ [][NextPause]_vars
  /\ \A w \in Workers : WF_vars(WorkerStep(w))

\* the tracker alone, from construction, under a running clock
InitTrackerOnly ==
  /\ now = T0
  /\ InitTracker
  /\ InitSched
  /\ InitAdaptive
  /\ InitLocks
  /\ InitStoreEmpty
  /\ op = Op("Init", "-", "void")

NextTracker ==
  \/ Tick
  \/ \E f \in Files, ok \in BOOLEAN : RecordPrediction(f, ok)
  \/ \E f \in Files : GetModelHealth(f)
  \/ \E f \in Files, success \in BOOLEAN, ts \in {now, now + 1} : TrainModel(f, success, ts)

SpecTracker == InitTrackerOnly /\ [][NextTracker]_vars

\* the model cache alone, constructed with any max_cache_size option
InitStore ==
  /\ now = T0
  /\ InitTracker
  /\ InitSched
  /\ InitAdaptive
  /\ InitLocks
  /\ model_cache = [p \in Paths |-> Absent]
  /\ access_order = <<>>
  /\ disk = {}
  /\ crashed = FALSE
  /\ ins_order = <<>>
  /\ max_cache_size \in 0..MaxCache
  /\ enabled = TRUE
  /\ cache_mutex = "free"
  /\ pred = IdlePred
  /\ file_stats = [p \in Paths |-> NoStats]
  /\ InitBlock
  /\ op = StoreOp("Init", "-", "void", FALSE, {})

NextStore ==
  \/ StoreTick
  \/ \E p \in Paths, trained \in BOOLEAN, saved \in {"saved", "not_opened"} :
       CreateLearnedIndex(p, trained, saved)
  \/ \E p \in Paths : LoadLearnedIndex(p)
  \/ \E p \in Paths : RemoveLearnedIndex(p)

SpecStore == InitStore /\ [][NextStore]_vars

\* a LearnedIndexBlock that is built, serialized to a model file and, after
\* the corruption of at most one byte, deserialized
InitSerial ==
  /\ now = T0
  /\ InitTracker
  /\ InitSched
  /\ InitAdaptive
  /\ InitLocks
  /\ InitStoreEmpty
  /\ op = StoreOp("Init", "-", "void", FALSE, {})

NextSerial ==
  \/ \E ps \in ParameterInputs : UpdateModelParameters(ps)
  \/ \E ps \in ParameterInputs : AssignParameters(ps)
  \/ \E q \in PredictionInputs : AddBlockPrediction(q)
  \/ UpdateChecksumCall
  \/ SerializeCall
  \/ \E i \in 1..Len(serialized.data), mask \in Masks : Corrupt(i, mask)
  \/ DeserializeCall

SpecSerial == InitSerial /\ [][NextSerial]_vars

\* training and lookups of one file
InitLinear ==
  /\ now = T0
  /\ InitTracker
  /\ InitSched
  /\ InitAdaptive
  /\ InitLocks
  /\ InitStoreEmpty
  /\ op = LinearOp("Init", "void", -1, -1)

NextLinear ==
  \/ \E m0 \in 0..MaxKeysPerBlock, m1 \in 0..MaxKeysPerBlock :
       CreateLinearIndex(TrainingData(m0, m1), TrainedModels[m0][m1])
  \/ \E key \in LookupKeys : PredictLinear(key)

SpecLinear == InitLinear /\ [][NextLinear]_vars

\* C25: for the file trained with the 20 samples (0,0), (100,0), ...,
\* (900,0), (1000,1), ..., (1900,1), the lookup of key 450 returns block 0
\* and the lookup of key 1450 returns block 1.
C25_TwentySamples ==
  (/\ op.name = "PredictBlockIndex"
   /\ linear_.kind = "model"
   /\ KeyBlockPairs(linear_) = TrainingData(10, 10))
    => /\ (op.key = 450 => op.block = 0)
       /\ (op.key = 1450 => op.block = 1)

\* an adaptive manager with performance tracking and without adaptive
\* retraining, queried by its clients
NextAdaptive ==
  \/ Tick
  \/ StartAdaptiveMonitoring
  \/ StopAdaptiveMonitoring
  \/ \E f \in Files : AdaptivePredictBlockIndex(f)
  \/ \E f \in Files, was_correct \in BOOLEAN : RecordActualBlock(f, was_correct)
  \/ \E f \in Files : GetModelHealth(f)

SpecAdaptive == InitTrackerOnly /\ [][NextAdaptive]_vars

\* C26: with monitoring active, a PredictBlockIndex call, whose ground
\* truth is not known yet, adds no correct event to the file's events: the
\* one event of a query is the one RecordActualBlock records.
CorrectEvents(events) == Len(SelectSeq(events, LAMBDA e : e.ok))

C26_UnknownNotCountedCorrect ==
  [][(op'.name = "PredictBlockIndex" /\ adaptive_monitoring_active_)
       => CorrectEvents(model_events'[op'.file]) <= CorrectEvents(model_events[op'.file])]_vars

\* C27: after RemoveLearnedIndex(f) the learned index of f is gone from the
\* cache and from storage, and the statistics of f are zero, so that a
\* later LoadLearnedIndex(f) or PredictBlockIndex(f, k) finds no model.
C27_RemovedFromCacheAndStorage ==
  [][op'.name = "RemoveLearnedIndex"
       => /\ model_cache'[op'.file].kind = "absent"
          /\ file_stats'[op'.file] = NoStats
          /\ op'.file \notin disk']_vars

\* C28: every ComputeHealthMetrics call returns, and the tracker mutex is
\* never left held by a thread that waits for it.
C28_TrackerCallsReturn ==
  /\ op.name = "ComputeHealthMetrics" => op.ret = "returned"
  /\ mutex_ # "hung"

\* C29: a monitor scan requests a model that needs retraining as an
\* emergency only when its current accuracy is below the configured
\* emergency threshold; otherwise it calls RequestRetraining with reason
\* automatic, which is rejected without a change of the queue when the
\* queue is full or the model is in flight, and which otherwise appends an
\* automatic request when it returns true.
BelowEmergencyThreshold(acc) ==
  acc * 100 < retraining_config.emergency_retraining_threshold * AccScale

C30_MinTimeBetweenRetrains ==
  [][op'.name = "WorkerDequeue"
       => (model_health[op'.file].retrain_count > 0
             => now >= model_health[op'.file].last_retrain_timestamp_ms
                         + min_time_between_retrains_ms)]_vars

\* C23: a record with parameter_count equal to its number of parameters and
\* an up-to-date checksum, serialized and deserialized from the unchanged
\* bytes, comes back with Deserialize true, equal in every field, and with
\* a checksum that verifies.
ValidRecord(b) ==
  /\ b.parameter_count = U32(Len(b.parameters))
  /\ b.checksum = ChecksumOf(b)

C23_RoundTrip ==
  (deserialized.ret # "none" /\ serialized.corrupted = 0 /\ ValidRecord(block_))
    => /\ deserialized.ret = "true"
       /\ deserialized.block = block_
       /\ VerifyChecksum(deserialized.block)

C23_Witness ==
  /\ deserialized.ret = "true"
  /\ serialized.corrupted = 0
  /\ ValidRecord(block_)
  /\ Len(block_.parameters) = 2
  /\ Len(block_.block_predictions) = 2
  /\ deserialized.block = block_

\* C24: Deserialize of a valid record's bytes with one byte corrupted never
\* returns true.
C24_CorruptedRecordFails ==
  (serialized.corrupted # 0 /\ ValidRecord(block_)) => deserialized.ret # "true"

\* the model cache serving predictions: one thread inside PredictBlockIndex,
\* other threads creating and removing indexes; the manager is constructed
\* enabled or disabled
InitPredict ==
  /\ now = T0
  /\ InitTracker
  /\ InitSched
  /\ InitAdaptive
  /\ InitLocks
  /\ model_cache = [p \in Paths |-> Absent]
  /\ access_order = <<>>
  /\ disk = {}
  /\ crashed = FALSE
  /\ ins_order = <<>>
  /\ max_cache_size = MaxCache
  /\ enabled \in BOOLEAN
  /\ cache_mutex = "free"
  /\ pred = IdlePred
  /\ file_stats = [p \in Paths |-> NoStats]
  /\ InitBlock
  /\ op = StoreOp("Init", "-", "void", FALSE, {})

\* the paths predictions are asked for
QueryPaths == {"A"}

NextPredict ==
  \/ \E p \in QueryPaths : PredictCall(p)
  \/ PredictLoad
  \/ PredictRelock
  \/ PredictAccess
  \/ PredictExit
  \/ \E p \in Paths : CreateLearnedIndex(p, TRUE, "saved")
  \/ \E p \in Paths : RemoveLearnedIndex(p)

SpecPredict == InitPredict /\ [][NextPredict]_vars

\* the paths removed next to predictions: the path queried and another
RemovedPaths == {"A", "B"}

\* predictions concurrent with every call that changes the cache or the
\* statistics
NextStats ==
  \/ \E p \in QueryPaths : PredictCall(p)
  \/ PredictLoad
  \/ PredictRelock
  \/ PredictAccess
  \/ PredictExit
  \/ \E p \in Paths : CreateLearnedIndex(p, TRUE, "saved")
  \/ \E p \in QueryPaths : LoadLearnedIndex(p)
  \/ \E p \in RemovedPaths : RemoveLearnedIndex(p)
  \/ ClearCache

SpecStats == InitPredict /\ [][NextStats]_vars

\* the model cache under CreateLearnedIndex calls that succeed or fail in
\* every way, with RemoveLearnedIndex, on a manager constructed enabled or
\* disabled
NextCreate ==
  \/ \E p \in Paths, trained \in BOOLEAN, saved \in SaveResults :
       CreateLearnedIndex(p, trained, saved)
  \/ \E p \in Paths : RemoveLearnedIndex(p)

SpecCreate == InitPredict /\ [][NextCreate]_vars

(* ------------------------------ properties ----------------------------- *)

\* the workers executing a job of file f: between dequeue and completion
Executing(f) == {w \in Workers : wpc[w] \in {"train", "record", "finish"}
                                 /\ wreq[w].model_id = f}

\* the accepted requests of file f still waiting in the queue
Queued(f) == {i \in 1..Len(retraining_queue) : retraining_queue[i].model_id = f}

\* C1: at any time at most one retraining job of a file is being executed
\* (is between its dequeue and its completion)
C1_OneJobPerFile ==
  \A f \in Files : Cardinality(Executing(f)) <= 1

\* the requests of file f that RequestRetraining accepted and whose job has
\* not completed: waiting in the queue or being executed
AcceptedPending(f) ==
  Cardinality({i \in Queued(f) : retraining_queue[i].trigger_reason # "emergency"})
  + Cardinality({w \in Executing(f) : wreq[w].trigger_reason # "emergency"})

\* C2: of the RequestRetraining calls made for one file, one is accepted and
\* the others return false until the accepted job has completed: a file
\* never has more than one accepted request that is queued or executing
C2_OneAcceptedRequest ==
  \A f \in Files : AcceptedPending(f) <= 1

\* C3: RequestRetraining returns false and leaves the queue and the request
\* statistics unchanged when the queue holds retraining_queue_size requests
\* or the file is in the in-flight set; in every other case it enqueues
\* exactly one request for the file and returns true
C3_RequestRetraining ==
  [][op'.name = "RequestRetraining" =>
       IF Len(retraining_queue) >= retraining_queue_size
          \/ op'.file \in models_being_retrained
       THEN /\ op'.ret = "false"
            /\ retraining_queue' = retraining_queue
            /\ stats' = stats
       ELSE /\ op'.ret = "true"
            /\ Len(retraining_queue') = Len(retraining_queue) + 1
            /\ retraining_queue'[Len(retraining_queue')].model_id = op'.file
            /\ SubSeq(retraining_queue', 1, Len(retraining_queue)) = retraining_queue]_vars

\* C4: RequestEmergencyRetraining of a file that is in the in-flight set is
\* rejected: it does not return true and enqueues nothing
C4_EmergencyRejectedInFlight ==
  [][(op'.name = "RequestEmergencyRetraining" /\ op'.file \in models_being_retrained) =>
       (op'.ret # "true" /\ retraining_queue' = retraining_queue)]_vars
\* the entry a least-recently-used eviction has to pick: the cached model
\* with the smallest last-access time and, among equals, the one whose path
\* entered the cache first
LRUVictims ==
  {p \in CachedPaths :
     /\ model_cache[p].kind = "model"
     /\ \A q \in CachedPaths :
          model_cache[q].kind = "model" =>
            \/ model_cache[p].last_access_time < model_cache[q].last_access_time
            \/ /\ model_cache[p].last_access_time = model_cache[q].last_access_time
               /\ IndexOf(ins_order, p) <= IndexOf(ins_order, q)}

\* C5: after every CreateLearnedIndex or LoadLearnedIndex call, for any
\* configured max_cache_size, the cache holds at most max_cache_size models
C5_CacheBound ==
  CacheSize <= max_cache_size

\* C6: an insertion that finds a non-empty cache at capacity evicts exactly
\* one entry, the cached entry with the smallest last-access time and, among
\* entries with equal last-access time, the one inserted earliest
C6_EvictsLRU ==
  [][(op'.name \in {"CreateLearnedIndex", "LoadLearnedIndex"}
      /\ op'.full /\ CachedPaths # {}) =>
       (op'.ret = "true" /\ op'.evicted = LRUVictims)]_vars
\* the condition of C7 on the state a ComputeHealthMetrics call finds, in
\* integer arithmetic
InCurrentWindow(f) ==
  {i \in 1..Len(model_events[f]) :
     /\ model_events[f][i].ts >= now - window_duration_ms
     /\ model_events[f][i].ts <= now}

CorrectInCurrentWindow(f) == {i \in InCurrentWindow(f) : model_events[f][i].ok}

RetrainCondition(f) ==
  /\ Cardinality(InCurrentWindow(f)) >= min_predictions_for_decision
  /\ now - model_health[f].last_retrain_timestamp_ms >= min_time_between_retrains_ms
  /\ \/ Cardinality(CorrectInCurrentWindow(f)) * MinAccDen
          < MinAccNum * Cardinality(InCurrentWindow(f))
     \/ IsAccuracyDegrading(model_windows[f], now)

\* C7: a ComputeHealthMetrics call that returns reports needs_retraining =
\* true if and only if the current window holds at least
\* min_predictions_for_decision events, at least min_time_between_retrains_ms
\* has elapsed since the last retrain, and the accuracy is below the minimum
\* or the model is degrading with its 1h trend below the negated threshold
C7_NeedsRetrainingIff ==
  [][\A f \in Files :
       (op'.name = "ComputeHealthMetrics" /\ op'.file = f /\ op'.ret = "returned") =>
         (model_health'[f].needs_retraining = RetrainCondition(f))]_vars

\* a step that applies RecordTrainingEvent for file f: the worker of a
\* successful job, or a successful direct TrainModel
IsTrainingEvent(o, f) ==
  o.name \in {"WorkerRecord", "TrainModel"} /\ o.ret = "true" /\ o.file = f

\* C8: a RecordTrainingEvent applied for a file whose needs_retraining is
\* true, by a scheduler worker or by a direct TrainModel, leaves
\* needs_retraining and is_degrading false and retrain_count one higher
C8_TrainingEventResets ==
  [][\A f \in Files :
       (IsTrainingEvent(op', f) /\ model_health[f].needs_retraining) =>
         /\ ~model_health'[f].needs_retraining
         /\ ~model_health'[f].is_degrading
         /\ model_health'[f].retrain_count = model_health[f].retrain_count + 1]_vars

\* C8, its case: a worker has recorded the training event of a successful
\* job for a file it found flagged
C8_Witness ==
  /\ op.name = "WorkerRecord"
  /\ op.found
  /\ ~model_health[op.file].needs_retraining
  /\ model_health[op.file].retrain_count >= 1

IsHealthComputation(o, f) ==
  /\ o.file = f
  /\ \/ o.name = "ComputeHealthMetrics" /\ o.ret = "returned"
     \/ o.name \in {"RequestRetraining", "RequestEmergencyRetraining",
                    "MonitorEmergency", "MonitorAutomatic"} /\ o.ret = "true"
     \/ o.name = "MonitorScan" /\ o.ret = "proceed"

C10_FailedJobFrame ==
  [][/\ (op'.name = "ExecuteRetraining" /\ op'.ret # "success") =>
          /\ model_health' = model_health
          /\ \E w \in Workers : /\ wpc[w] = "train" /\ wpc'[w] = "finish"
                                /\ wreq[w].model_id = op'.file /\ ~wres'[w]
     /\ \A w \in Workers :
          (wpc[w] = "finish" /\ wpc'[w] # "finish" /\ ~wres[w]) =>
            /\ op' = Op("RetrainingResult", wreq[w].model_id, "false")
            /\ model_health' = model_health]_vars

\* C10, its case: a job for a flagged file has failed and reported it, and
\* the file is still flagged
C10_Witness ==
  /\ op.name = "RetrainingResult"
  /\ op.ret = "false"
  /\ model_health[op.file].needs_retraining
  /\ model_health[op.file].retrain_count = 0

\* C11: whatever the outcome of a job, the worker that ends it removes the
\* job's file from the in-flight set before it goes back to the head of its
\* loop, a worker that waits for or dequeues a request holds no job, and no
\* file stays in the in-flight set forever
C11_InFlightCleanup ==
  /\ [][\A w \in Workers :
          (wpc[w] \in {"train", "record", "finish"}
           /\ wpc'[w] \notin {"train", "record", "finish"}) =>
            /\ wreq[w].model_id \notin models_being_retrained'
            /\ wpc'[w] = "top"]_vars
  /\ \A f \in Files :
       (f \in models_being_retrained) ~> (f \notin models_being_retrained)

\* C12: after Stop() is called on a running scheduler, every worker thread
\* and the monitoring thread leave their loops and Stop() returns
C12_StopReturns ==
  (stopper = "joining") ~> (stopper = "idle")

\* a worker takes a request off the queue in this step
Dequeues(w) == wpc[w] = "dequeue" /\ wpc'[w] = "train"

\* C13: while the pause flag is set no worker dequeues a request; a
\* RequestRetraining call made while paused is treated as when not paused
\* (rejected only for a full queue or a file in flight, and enqueued when
\* it returns true); Pause ends no worker thread and takes no job from a
\* worker
C13_PauseGatesDequeue ==
  [][/\ \A w \in Workers : Dequeues(w) => ~is_paused
     /\ (op'.name = "RequestRetraining" /\ is_paused) =>
          /\ op'.ret = "false" =>
               \/ Len(retraining_queue) >= retraining_queue_size
               \/ op'.file \in models_being_retrained
          /\ op'.ret = "true" =>
               /\ Len(retraining_queue') = Len(retraining_queue) + 1
               /\ retraining_queue'[Len(retraining_queue')].model_id = op'.file
     /\ (~is_paused /\ is_paused') => (wpc' = wpc /\ wreq' = wreq)]_vars

\* the workers that hold a dequeued request
Busy == {w \in Workers : wpc[w] \in {"train", "record", "finish"}}

\* C14: every accepted request is consumed exactly once: it is in the queue,
\* or with exactly one worker, or has yielded exactly one RetrainingResult
\* (counted by UpdateStats); a dequeue hands one request to one worker; and
\* while the scheduler is running and not paused a queued request is
\* eventually dequeued and a dequeued request eventually yields its result
C14_ConsumedExactlyOnce ==
  /\ [](stats.total_retraining_requests =
          Len(retraining_queue) + Cardinality(Busy)
          + stats.successful_retrainings + stats.failed_retrainings)
  /\ [][\A w \in Workers :
          Dequeues(w) =>
            /\ \E i \in 1..Len(retraining_queue) :
                 /\ wreq'[w] = retraining_queue[i]
                 /\ retraining_queue' = RemoveAt(retraining_queue, i)
            /\ \A v \in Workers \ {w} : wreq'[v] = wreq[v] /\ wpc'[v] = wpc[v]]_vars
  /\ (retraining_queue # <<>> /\ is_running /\ ~is_paused)
       ~> (op.name = "WorkerDequeue" \/ is_paused \/ ~is_running)
  /\ \A w \in Workers : (w \in Busy) ~> (w \notin Busy)

\* C15: a RecordPrediction call for a file leaves its event buffer with at
\* most max_events_per_window events: the event just recorded last, before
\* it the events the buffer held, in their order, the oldest of them
\* dropped when the buffer was full
C15_EventRingBuffer ==
  [][\A f \in Files :
       (op'.name = "RecordPrediction" /\ op'.file = f) =>
         LET old == model_events[f]
             new == model_events'[f]
             k == Len(new)
         IN /\ k <= max_events_per_window
            /\ k = IF Len(old) + 1 <= max_events_per_window
                   THEN Len(old) + 1 ELSE max_events_per_window
            /\ k > 0 => \E ok \in BOOLEAN : new[k] = [ts |-> now, ok |-> ok]
            /\ \A i \in 1..(k - 1) : new[i] = old[Len(old) - (k - 1) + i]]_vars

\* C15, its case: a RecordPrediction found the buffer full with an event of
\* the tick before, which the window archived at this tick still counts,
\* and dropped that event
C15_Witness ==
  /\ op.name = "RecordPrediction"
  /\ Len(model_events[op.file]) = max_events_per_window
  /\ \A i \in 1..Len(model_events[op.file]) : model_events[op.file][i].ts = now
  /\ model_events[op.file][1].ok # model_events[op.file][2].ok
  /\ model_windows[op.file] # <<>>
  /\ LET last == model_windows[op.file][Len(model_windows[op.file])]
     IN last.window_start_ms = now - window_duration_ms
        /\ last.total_predictions = max_events_per_window
        /\ last.correct_predictions = 0

\* the positions of the emergency requests in the queue
EmergencyQueued ==
  {i \in 1..Len(retraining_queue) : retraining_queue[i].trigger_reason = "emergency"}

\* C16: whenever the queue holds an emergency request and a non-emergency
\* request at the same time, a worker that dequeues takes an emergency
\* request
C16_EmergencyFirst ==
  [][\A w \in Workers :
       (Dequeues(w) /\ EmergencyQueued # {}) =>
         wreq'[w].trigger_reason = "emergency"]_vars

\* C16, its case: a worker has dequeued an emergency request and left a
\* non-emergency request in the queue
C16_Witness ==
  /\ op.name = "WorkerDequeue"
  /\ wpc[op.ret] = "train"
  /\ wreq[op.ret].trigger_reason = "emergency"
  /\ retraining_queue # <<>>
  /\ EmergencyQueued = {}

\* the position of the non-emergency request that was accepted first; 0
\* when the queue holds none
RECURSIVE FirstAccepted(_)
FirstAccepted(i) ==
  IF i > Len(retraining_queue) THEN 0
  ELSE IF retraining_queue[i].trigger_reason # "emergency" THEN i
  ELSE FirstAccepted(i + 1)

\* C17: non-emergency requests are dequeued in the order in which they were
\* accepted: a worker that dequeues a non-emergency request takes the one
\* accepted first, also among requests accepted at the same clock value
C17_FifoAmongRequests ==
  [][\A w \in Workers :
       (Dequeues(w) /\ wreq'[w].trigger_reason # "emergency") =>
         /\ wreq'[w] = retraining_queue[FirstAccepted(1)]
         /\ retraining_queue' = RemoveAt(retraining_queue, FirstAccepted(1))]_vars

\* the access step of a PredictBlockIndex whose first lookup found a cached
\* model and which read a confidence below the threshold
LowConfidenceHit ==
  /\ pred.pc = "access"
  /\ pred.via = "hit"
  /\ model_cache[pred.path].kind = "model"
  /\ pred'.pc = "exit"
  /\ pred'.conf < confidence_threshold

\* C18 as stated: on a cache hit whose confidence is below
\* confidence_threshold, PredictBlockIndex still returns the block the model
\* predicted, not the no-prediction result, and counts the query in
\* fallback_queries.
C18_LowConfidenceStillReturnsBlock ==
  [][LowConfidenceHit =>
       /\ pred'.block \in Blocks
       /\ file_stats'[pred.path].fallback_queries
            = file_stats[pred.path].fallback_queries + 1]_vars

\* C18 amended: on a cache hit on a model whose confidence is below
\* confidence_threshold, PredictBlockIndex returns the no-prediction result
\* -1 in place of the predicted block, counts the query in total_queries and
\* fallback_queries and not in successful_predictions, and still records the
\* access in the entry (last_access_time, access_count); the value computed
\* at the threshold check is the value returned.
C18_LowConfidenceFallsBack ==
  [][/\ LowConfidenceHit =>
          /\ pred'.block = -1
          /\ file_stats' = UpdateStatsOfFile(file_stats, pred.path, FALSE)
          /\ model_cache' = [model_cache EXCEPT ![pred.path] =
                CachedModel(now, model_cache[pred.path].access_count + 1)]
     /\ (pred.pc = "exit" /\ pred.via = "hit" /\ pred'.pc = "idle") =>
          /\ op'.name = "PredictBlockIndex"
          /\ op'.ret = "returned"
          /\ op'.block = pred.block
          /\ cache_mutex' = "free"]_vars

\* a hit with confidence 50 against the threshold 80 that is about to
\* return -1, counted as the file's one query and one fallback
C18_Witness ==
  /\ pred.pc = "exit"
  /\ pred.via = "hit"
  /\ pred.conf < confidence_threshold
  /\ pred.block = -1
  /\ model_cache[pred.path].kind = "model"
  /\ model_cache[pred.path].access_count = 2
  /\ file_stats[pred.path] =
       [total_queries |-> 1, successful_predictions |-> 0, fallback_queries |-> 1]

\* C19: PredictBlockIndex for a file with no cached model and no loadable
\* persisted model returns the no-prediction result and never fails, leaves
\* the cache as it was and counts one fallback query; with the manager
\* disabled it returns the no-prediction result and counts nothing.
C19_MissReturnsNoPrediction ==
  [][/\ (pred.pc = "load" /\ pred'.via = "unloadable") =>
          /\ model_cache' = model_cache
          /\ access_order' = access_order
          /\ file_stats' = UpdateStatsOfFile(file_stats, pred.path, FALSE)
     /\ (pred.pc = "exit" /\ pred.via = "unloadable" /\ pred'.pc = "idle") =>
          /\ op'.name = "PredictBlockIndex"
          /\ op'.ret = "returned"
          /\ op'.block = -1
          /\ ~crashed'
          /\ UNCHANGED <<model_cache, access_order, file_stats>>
     /\ (op'.name = "PredictBlockIndex" /\ ~enabled) =>
          /\ op'.ret = "returned"
          /\ op'.block = -1
          /\ UNCHANGED <<model_cache, access_order, file_stats>>]_vars

\* C20: PredictBlockIndex touches a cache entry only with cache_mutex_ held,
\* so the entry its iterator refers to is never erased or replaced under
\* it, and when the guard's destructor runs at the return the mutex is
\* held, so each acquisition is released exactly once.
C20_EntryAccessUnderLock ==
  /\ pred.pc = "access" => cache_mutex = "pred"
  /\ ~pred.stale
  /\ pred.pc = "exit" => cache_mutex = "pred"

\* C21: a CreateLearnedIndex call that fails (no usable training data, or
\* the model file cannot be saved) returns false and leaves model_cache_ and
\* access_order_ as they were, the previous entry of the file included.
C21_FailedCreateKeepsCache ==
  [][(op'.name = "CreateLearnedIndex" /\ op'.ret = "false") =>
       UNCHANGED <<model_cache, access_order>>]_vars

\* a failed CreateLearnedIndex for a file that stays cached, although the
\* failed save has destroyed its model file
C21_Witness ==
  /\ op.name = "CreateLearnedIndex"
  /\ op.ret = "false"
  /\ model_cache[op.file].kind = "model"
  /\ IndexOf(access_order, op.file) # 0
  /\ op.file \notin disk

\* a counter of the statistics of file p is lower after the step
CounterDecreases(p) ==
  \/ file_stats'[p].total_queries < file_stats[p].total_queries
  \/ file_stats'[p].successful_predictions < file_stats[p].successful_predictions
  \/ file_stats'[p].fallback_queries < file_stats[p].fallback_queries

\* C22: total_queries, successful_predictions and fallback_queries of a file
\* never decrease under PredictBlockIndex, CreateLearnedIndex,
\* LoadLearnedIndex or an eviction; they decrease only in ClearCache or in
\* RemoveLearnedIndex of that file, which set all three to zero.
C22_CountersMonotonic ==
  [][\A p \in Paths :
       CounterDecreases(p) =>
         /\ \/ op'.name = "ClearCache"
            \/ op'.name = "RemoveLearnedIndex" /\ op'.file = p
         /\ file_stats'[p] = NoStats]_vars

\* an insertion has just evicted a file that keeps the count of its query
C22_Witness ==
  /\ op.name = "CreateLearnedIndex"
  /\ \E p \in op.evicted :
       /\ model_cache[p].kind = "absent"
       /\ file_stats[p].total_queries = 1

(* ------------------- jobs of two files, with failures ------------------- *)

\* the files of the scheduler when requests of different files are queued
JobFiles == {"f1", "f2"}

\* the tracker after two incorrect predictions of each of the two files
InitTrackerTwoFiles ==
  LET e1 == EventsAfterRecord(<<>>, T0, FALSE)
      w1 == WindowsAfterRecord(<<>>, e1, 0, T0)
      e2 == EventsAfterRecord(e1, T0, FALSE)
      w2 == WindowsAfterRecord(w1, e2, T0, T0)
  IN /\ model_events = [f \in JobFiles |-> e2]
     /\ model_windows = [f \in JobFiles |-> w2]
     /\ model_health = [f \in JobFiles |-> DefaultHealth]
     /\ tracked = JobFiles
     /\ last_window_computation = [f \in JobFiles |-> T0]
     /\ mutex_ = "free"

InitRecover ==
  /\ now = T0
  /\ InitTrackerTwoFiles
  /\ InitSched
  /\ InitAdaptive
  /\ InitLocks
  /\ InitStoreEmpty
  /\ op = Op("Init", "-", "void")

\* the scheduler with requests of two files and the workers
NextRecover ==
  \/ Start
  \/ \E f \in JobFiles : RequestRetraining(f, "manual")
  \/ \E w \in Workers : WorkerStep(w)

\* every worker thread that can take a step eventually takes one; nothing
\* is assumed of the clients
SpecRecover ==
  /\ InitRecover
  /\ [][NextRecover]_vars
  /\ \A w \in Workers : WF_vars(WorkerStep(w))

\* a worker has just reported the failed job of a file other than g while a
\* request of g is queued
FailedAhead(g) ==
  /\ op.name = "RetrainingResult"
  /\ op.ret = "false"
  /\ op.file # g
  /\ Queued(g) # {}

\* C31: a failed job never stops a worker: the worker that reports
\* RetrainingResult{success:false} goes back to the head of its loop, and a
\* request of another file that is queued when the failure is reported is
\* eventually dequeued and executed
C31_FailedJobKeepsWorker ==
  /\ [][\A w \in Workers :
          (wpc[w] = "finish" /\ wpc'[w] # "finish") => wpc'[w] = "top"]_vars
  /\ \A g \in JobFiles :
       FailedAhead(g) ~> (op.name = "ExecuteRetraining" /\ op.file = g)

(* --------------------- resuming a paused scheduler ---------------------- *)

\* a scheduler with one worker thread paused and resumed: Start, Pause,
\* Resume, the clients' requests and the worker
NextResume ==
  \/ StartOneWorker
  \/ Pause
  \/ Resume
  \/ \E f \in Files : RequestRetraining(f, "manual")
  \/ \E w \in Workers : WorkerStep(w)

\* every worker thread that can take a step eventually takes one; nothing
\* is assumed of the clients
SpecResume ==
  /\ Init
  /\ [][NextResume]_vars
  /\ \A w \in Workers : WF_vars(WorkerStep(w))

\* C32: when Resume() returns with requests in the queue of a running
\* scheduler, a worker eventually dequeues and executes a request (unless
\* the scheduler is paused again), wherever the workers were in their loop
\* when Resume() ran
C32_ResumeRestartsWorkers ==
  (op.name = "Resume" /\ is_running /\ retraining_queue # <<>>)
    ~> (is_paused \/ op.name = "ExecuteRetraining")

\* C33: the number of retraining jobs executing at the same time
\* (active_retraining_count_) never exceeds max_concurrent_retraining, it
\* counts the workers that hold a job, and it is 0 when no job is executing
C33_ActiveCountBounded ==
  /\ active_retraining_count <= max_concurrent_retraining
  /\ active_retraining_count = Cardinality(Busy)
  /\ Busy = {} => active_retraining_count = 0

\* after a job has ended, a dequeue brings the number of executing jobs to
\* max_concurrent_retraining
C33_Witness ==
  /\ op.name = "WorkerDequeue"
  /\ active_retraining_count = max_concurrent_retraining
  /\ stats.successful_retrainings + stats.failed_retrainings >= 1

(* --------------------- loading a persisted record ----------------------- *)

\* a model file written from a block under construction, one of its bytes
\* corrupted, and the file loaded by LoadLearnedIndex or by a query
NextLoad ==
  \/ \E ps \in ParameterInputs : UpdateModelParameters(ps)
  \/ UpdateChecksumCall
  \/ SerializeCall
  \/ \E i \in 1..Len(serialized.data), mask \in Masks : Corrupt(i, mask)
  \/ LoadLearnedIndex(RecordPath)
  \/ PredictCall(RecordPath)
  \/ PredictLoad
  \/ PredictRelock
  \/ PredictAccess
  \/ PredictExit

SpecLoad == InitSerial /\ [][NextLoad]_vars

\* the model file of RecordPath holds a record that fails validation: a
\* byte of it (of the magic number, the version, a count, the checksum or
\* any other field) was corrupted, or it was written from a block whose
\* checksum was out of date
RecordFailsValidation ==
  /\ serialized # NoFile
  /\ serialized.corrupted # 0 \/ ~ValidRecord(block_)

\* C34: LoadLearnedIndex, and the load-on-miss path of PredictBlockIndex,
\* never insert a persisted record that fails validation into the cache:
\* the call reports no model (false, or the prediction -1) and leaves the
\* cache as it was
C34_InvalidRecordNotCached ==
  [][(RecordFailsValidation /\ model_cache[RecordPath].kind = "absent") =>
       /\ (op'.name = "LoadLearnedIndex" /\ op'.file = RecordPath) =>
            /\ op'.ret = "false"
            /\ UNCHANGED <<model_cache, access_order>>
       /\ (pred.pc = "exit" /\ pred'.pc = "idle") =>
            /\ op'.ret = "returned"
            /\ op'.block = -1
            /\ UNCHANGED <<model_cache, access_order>>]_vars

(* ----------------------- the cache reconfigured ------------------------- *)

\* the cache with CreateLearnedIndex, LoadLearnedIndex, RemoveLearnedIndex
\* and UpdateOptions called one at a time under a running clock
NextOptions ==
  \/ StoreTick
  \/ \E p \in Paths, trained \in BOOLEAN : CreateLearnedIndex(p, trained, "saved")
  \/ \E p \in Paths : LoadLearnedIndex(p)
  \/ \E p \in Paths : RemoveLearnedIndex(p)
  \/ \E m \in 0..MaxCache : UpdateOptions(m)

SpecOptions == InitStore /\ [][NextOptions]_vars

\* C35: an UpdateOptions call with a smaller max_cache_size returns and
\* leaves at most the new max_cache_size models cached
C35_UpdateOptionsShrinks ==
  [][(op'.name = "UpdateOptions" /\ max_cache_size' < max_cache_size) =>
       /\ op'.ret = "void"
       /\ CacheSize' <= max_cache_size']_vars

\* C37: a CreateLearnedIndex call that retrains a file already cached
\* replaces that file's entry only: the same files are cached before and
\* after the call and no other file's model is evicted, also with the cache
\* at capacity
C37_RetrainReplacesInPlace ==
  [][(/\ op'.name = "CreateLearnedIndex"
      /\ op'.ret = "true"
      /\ model_cache[op'.file].kind = "model") =>
       /\ CachedPaths' = CachedPaths
       /\ op'.evicted \subseteq {op'.file}]_vars

\* the paths of access_order_ are the paths of model_cache_, each once
OrderMatchesCache ==
  /\ \A p \in Paths : (model_cache[p].kind # "absent") <=> (IndexOf(access_order, p) # 0)
  /\ \A i, j \in 1..Len(access_order) : access_order[i] = access_order[j] => i = j

\* C40: after any sequence of CreateLearnedIndex, LoadLearnedIndex,
\* RemoveLearnedIndex, UpdateOptions and evictions, access_order_ holds
\* exactly the paths present in model_cache_, each exactly once, and no
\* eviction looks up a path that model_cache_ does not hold
C40_AccessOrderMatchesCache ==
  /\ OrderMatchesCache
  /\ op.ret # "crashed"

\* C36: a file is in models_being_retrained_ exactly when some worker is
\* between the dequeue and the end of a job of that file: the set never
\* lacks the file of a job that is executing and never keeps the file of a
\* job that has ended
C36_InFlightSetExact ==
  \A f \in Files : (f \in models_being_retrained) <=> (Executing(f) # {})

(* ----------------------------- lock order ------------------------------- *)

InitLockOrder ==
  /\ now = T0
  /\ InitTracker
  /\ InitSched
  /\ InitAdaptive
  /\ InitLocks
  /\ InitStoreEmpty
  /\ op = Op("Init", "-", "void")

\* callers, a worker and the monitoring thread locking and unlocking
NextLockOrder ==
  \/ \E t \in Threads : BeginCall(t)
  \/ \E t \in Threads : LockStep(t)
  \/ \E t \in Threads : UnlockStep(t)

SpecLockOrder == InitLockOrder /\ [][NextLockOrder]_vars

\* the global order: the queue lock before the in-flight, tracker,
\* statistics and training data locks of the scheduler; the cache lock
\* before the statistics lock of the cache manager
LockedBefore(k, m) ==
  \/ k = "queue" /\ m \in {"models", "tracker", "sched_stats", "training_data"}
  \/ k = "cache" /\ m = "file_stats"

\* thread t waits for the mutex m that thread u holds
WaitsFor(t, u) ==
  /\ thread_todo[t] # <<>>
  /\ Head(thread_todo[t]).do \in {"lock", "blocked"}
  /\ lock_holder[Head(thread_todo[t]).m] = u

\* a cycle of threads each waiting for a mutex held by another of them
WaitCycle ==
  \E S \in SUBSET Threads :
    /\ S # {}
    /\ \A t \in S : \E u \in S \ {t} : WaitsFor(t, u)

\* C38: a thread that acquires a mutex while it holds another acquires them
\* in the global order, and no state is reachable in which a cycle of
\* monitor, worker and caller threads each wait for a mutex held by another
\* (a thread that locks a mutex it holds itself waits for no other thread)
C38_GlobalLockOrder ==
  /\ [][\A t \in Threads, m \in Mutexes :
          (lock_holder[m] # t /\ lock_holder'[m] = t) =>
            \A k \in Mutexes : lock_holder[k] = t => LockedBefore(k, m)]_vars
  /\ [](~WaitCycle)

\* a caller holds the queue lock and the statistics lock while the worker
\* and the monitoring thread wait for locks it holds
C38_Witness ==
  /\ lock_holder["queue"] = "caller1"
  /\ lock_holder["sched_stats"] = "caller1"
  /\ WaitsFor("worker", "caller1")
  /\ WaitsFor("monitor", "caller1")

(* the retrain cooldown of the tracker *)

\* C39: a ComputeHealthMetrics call that returns with needs_retraining = true
\* is made at a clock value of at least last_retrain_timestamp_ms +
\* min_time_between_retrains_ms, whatever timestamp RecordTrainingEvent
\* stored, one ahead of the clock included
C39_CooldownNotWrapped ==
  [][\A f \in Files :
       (/\ op'.name = "ComputeHealthMetrics" /\ op'.file = f /\ op'.ret = "returned"
        /\ model_health'[f].needs_retraining) =>
         now >= model_health'[f].last_retrain_timestamp_ms + min_time_between_retrains_ms]_vars

====
